---- MODULE Spec2Model ----
(***************************************************************************)
(* Trade lifecycle simulator of option_tools/option_trade_executor.py:     *)
(* execute_option_trades (the signal loop) and                             *)
(* execute_advanced_hybrid_premium_trade (the per-trade bar loop) with the *)
(* helpers they call.                                                      *)
(*                                                                         *)
(* Number representation.  The program computes with binary floats; the   *)
(* model computes with exact integers:                                     *)
(*   - a price is an integer number of 1/100 points (100.00 -> 10000);     *)
(*   - a percentage is an integer number of 1/10 percent (3.5% -> 35);     *)
(*   - an ATR multiplier is an integer number of 1/10 (3.0 -> 30);         *)
(*   - an oscillator value (K, D, %R, %R.1) is an integer;                 *)
(*   - a timestamp is the minute of the day (11:00 -> 660); the bars of    *)
(*     prices_df are one minute apart, bar i at DayStart + i.              *)
(* The input sets are chosen so that every product and quotient the code   *)
(* forms is exact in this representation.                                  *)
(***************************************************************************)
EXTENDS Integers, Sequences, FiniteSets, TLC

\* ------------------------------------------------------------------------
\* Bounds of the model
\* ------------------------------------------------------------------------
MaxBars == 4

MaxStreamBars == 4

\* EMA_CROSS_EXIT.MIN_CANDLES_BEFORE_EXIT and max(EMA_PERIODS) are inputs of
\* the configuration file; the model uses small values so that the EMA exit
\* is reachable within MaxBars bars.
EmaMinCandles == 2

EmaLongPeriod == 3

\* RISK_MANAGEMENT.TIME_BASED_TRAILING.TIGHTEN_AFTER_MINUTES, an input of the
\* configuration file, small for the same reason.
TightenAfterMinutes == 2

\* ------------------------------------------------------------------------
\* Program constants (defaults written in the code)
\* ------------------------------------------------------------------------
NULL == "None"

\* None in a numeric local (exit_time, exit_price, current_trade_exit_time).
NoValue == -1

Inf == 1000000000

Max(a, b) == IF a >= b THEN a ELSE b

Min(a, b) == IF a <= b THEN a ELSE b

Max3(a, b, c) == Max(Max(a, b), c)

\* An oscillator value that is NaN, and the value of a column that prices_df
\* does not have; both lie outside the range of the oscillators.
NaN == 9999

Absent == 8888

\* row.get(key, default) of a row of prices_df
Get(value, default) == IF value = Absent THEN default ELSE value

\* safe_get of the two detectors, and the None/NaN test of
\* assess_entry_risk_level
safe_get(value, default) == IF value = NaN THEN default ELSE value

\* Float comparisons: every comparison with NaN is False.
Gt(a, b) == a # NaN /\ b # NaN /\ a > b

Le(a, b) == a # NaN /\ b # NaN /\ a <= b

\* PREMIUM_TIERS of the fallback configuration, in dict order.
PREMIUM_TIERS ==
  << [name |-> "LOW",  threshold |-> 10000, sl_percent |-> 30, atr_mult |-> 25,
      breakeven_delay |-> 0, trail_start_pct |-> 100],
     [name |-> "MED",  threshold |-> 25000, sl_percent |-> 50, atr_mult |-> 30,
      breakeven_delay |-> 2, trail_start_pct |-> 150],
     [name |-> "HIGH", threshold |-> Inf,   sl_percent |-> 70, atr_mult |-> 40,
      breakeven_delay |-> 2, trail_start_pct |-> 150] >>

\* DYNAMIC_SL defaults of get_dynamic_sl_percent.
HIGH_RISK_CFG == [STOCH_K_THRESHOLD |-> 85, WILLIAMS_R_THRESHOLD |-> -20, SL_PERCENT |-> 35]

MODERATE_RISK_CFG == [STOCH_K_THRESHOLD |-> 70, WILLIAMS_R_THRESHOLD |-> -50, SL_PERCENT |-> 50]

LOW_RISK_CFG == [SL_PERCENT |-> 70]

OPENING_HOUR_REDUCTION == 10

CLOSING_HOUR_INCREASE == 10

MinSlPct == 20

MaxSlPct == 100

\* YELLOW_FLAG_SYSTEM defaults.
WILLIAMS_R_CROSS == -80

STOCH_MOMENTUM_DROP == 20

YF_DOUBLE_REVERSAL == -50

TIGHTEN_SL_PCT == 15

\* TECHNICAL_EXITS defaults.
WILLIAMS_R_REVERSAL == -20

STOCH_EXHAUSTION == 90

TE_DOUBLE_REVERSAL == -50

ExtremePrevK == 85

ExtremeCurrK == 70

BearishCrossMinK == 70

\* Technical-exit gating thresholds (percent, in tenths) and the nudge.
TechLossPct == -20

TechSmallProfitPct == 10

TechNudgePct == 10

\* AVERAGE_SIGNAL_MANAGEMENT defaults.
FIXED_TP_POINTS == 1000

BREAKEVEN_AFTER_PCT == 40

\* QUICK_EXIT_CONDITIONS.STALL_CANDLES is an input of the configuration file
\* (code default 5); small so that the stall rule is reachable.
AVG_STALL_CANDLES == 2

STALL_THRESHOLD_PCT == 15

WILLIAMS28_CROSS_UNDER == -80

WILLIAMS9_CROSS_UNDER == -80

WilliamsMinProfitPct == 30

\* BIGMOVE_TRAILING stage defaults of get_trailing_stage_config.
STAGE1 == [PROFIT_THRESHOLD |-> 250, ATR_MULTIPLIER |-> 30, MIN_SL_PCT |-> 80]

STAGE2 == [PROFIT_THRESHOLD |-> 500, ATR_MULTIPLIER |-> 40, MIN_SL_PCT |-> 150]

STAGE3 == [ATR_MULTIPLIER |-> 60, MIN_SL_PCT |-> 250]

TIGHTEN_MULTIPLIER == 8

PROTECT_AFTER_PCT == 300

PROTECTION_LEVEL_PCT == 200

EMA_MIN_PROFIT_PCT == 200

\* Regular (neither average nor BigMove) trade management.
RegularAtrMultiplier == 10

RegularMinSlPct == 80

BREAKEVEN_MOVE_PCT == 40

QUICK_TP_POINTS == 1000

\* SIGNAL_DIFFERENTIATION defaults of the fallback configuration.
AVG_WINDOW_CANDLES == 3

BIGMOVE_THRESHOLDS ==
  [CALL |-> [STOCH_K_THRESHOLD |-> 72, WILLIAMS_R1_THRESHOLD |-> -5],
   PUT  |-> [STOCH_K_THRESHOLD |-> 75, WILLIAMS_R1_THRESHOLD |-> -50]]

MIN_CANDLE_RANGE_PCT == 12

CONSECUTIVE_MOVES == 1

\* LAST_ENTRY_TIME '15:00' of the main configuration, as minute of the day.
LAST_ENTRY_TIME == 900

\* ------------------------------------------------------------------------
\* The inputs of a run: which optional feature blocks trade_config.yaml
\* enables, the values of the options the claims vary, the shape of the
\* blocks the code indexes without a default, and the trade_type argument
\* ------------------------------------------------------------------------
\* SIGNAL_DIFFERENTIATION and QUICK_EXIT_CONDITIONS are "dict" or "absent";
\* EMA_CROSS_EXIT is "dict", "absent" or "bool" (the fallback configuration
\* of load_trade_config sets it to True).
CfgFull ==
  [DYNAMIC_SL |-> [HIGH_RISK |-> HIGH_RISK_CFG, MODERATE_RISK |-> MODERATE_RISK_CFG,
                  LOW_RISK |-> LOW_RISK_CFG],
   ENH |-> TRUE, YF |-> TRUE, TE |-> TRUE, TBS |-> TRUE, AVG |-> TRUE,
   EMA |-> TRUE, MOMENTUM_WEAKENING |-> TRUE, TBT |-> TRUE, PP |-> TRUE,
   USE_STOCH_FADE_FOR_TP |-> TRUE, WILLIAMS_EXIT_ENABLED |-> TRUE,
   STOCH_BEARISH_CROSS |-> TRUE, SD |-> TRUE, MC |-> TRUE, trade_type |-> "Put",
   OPENING_HOUR_REDUCTION |-> OPENING_HOUR_REDUCTION,
   CLOSING_HOUR_INCREASE |-> CLOSING_HOUR_INCREASE,
   AVG_WINDOW_CANDLES |-> AVG_WINDOW_CANDLES,
   CONSECUTIVE_MOVES |-> CONSECUTIVE_MOVES,
   SIGNAL_DIFFERENTIATION |-> "dict", EMA_CROSS_EXIT |-> "dict",
   QUICK_EXIT_CONDITIONS |-> "dict", QUICK_TP_POINTS |-> QUICK_TP_POINTS,
   TIGHTEN_SL_PCT |-> TIGHTEN_SL_PCT]

CfgNoEnh == [CfgFull EXCEPT !.ENH = FALSE, !.trade_type = "Call"]

CfgNoAvg == [CfgFull EXCEPT !.AVG = FALSE, !.MOMENTUM_WEAKENING = FALSE, !.MC = FALSE]

CfgPlain ==
  [CfgFull EXCEPT !.ENH = FALSE, !.YF = FALSE, !.TE = FALSE, !.TBS = FALSE,
                  !.AVG = FALSE, !.EMA = FALSE, !.MOMENTUM_WEAKENING = FALSE,
                  !.TBT = FALSE, !.PP = FALSE, !.USE_STOCH_FADE_FOR_TP = FALSE,
                  !.WILLIAMS_EXIT_ENABLED = FALSE, !.STOCH_BEARISH_CROSS = FALSE,
                  !.SD = FALSE, !.MC = FALSE, !.trade_type = "Call"]

\* The configuration load_trade_config returns when the YAML cannot be read:
\* no ENHANCED_SL_MANAGEMENT, AVERAGE_SIGNAL_MANAGEMENT or RISK_MANAGEMENT
\* block, momentum confirmation disabled, 'EMA_CROSS_EXIT': True and
\* 'QUICK_TP_POINTS': 12.
CfgFallback ==
  [CfgPlain EXCEPT !.SD = TRUE, !.USE_STOCH_FADE_FOR_TP = TRUE,
                   !.EMA_CROSS_EXIT = "bool", !.QUICK_TP_POINTS = 1200]

\* No SIGNAL_DIFFERENTIATION block at all.
CfgNoSignalDiff ==
  [CfgFull EXCEPT !.SIGNAL_DIFFERENTIATION = "absent", !.SD = FALSE, !.MC = FALSE,
                  !.EMA_CROSS_EXIT = "absent", !.EMA = FALSE]

\* AVERAGE_SIGNAL_MANAGEMENT enabled without its QUICK_EXIT_CONDITIONS block.
CfgNoQuickExit == [CfgFull EXCEPT !.QUICK_EXIT_CONDITIONS = "absent"]

\* YELLOW_FLAG_SYSTEM.TIGHTEN_SL_PCT of 2.5 and of 0.5 instead of the default.
CfgWideTighten == [CfgFull EXCEPT !.TIGHTEN_SL_PCT = 25]

CfgNarrowTighten == [CfgFull EXCEPT !.TIGHTEN_SL_PCT = 5]

\* DYNAMIC_SL with the HIGH_RISK thresholds at K 80 / %R -30 and the
\* MODERATE_RISK thresholds at K 60 / %R -60 instead of the defaults.
CfgCustomThresholds ==
  [CfgFull EXCEPT !.DYNAMIC_SL.HIGH_RISK.STOCH_K_THRESHOLD = 80,
                  !.DYNAMIC_SL.HIGH_RISK.WILLIAMS_R_THRESHOLD = -30,
                  !.DYNAMIC_SL.MODERATE_RISK.STOCH_K_THRESHOLD = 60,
                  !.DYNAMIC_SL.MODERATE_RISK.WILLIAMS_R_THRESHOLD = -60]

\* No RISK_MANAGEMENT block and no EMA_CROSS_EXIT block.
CfgNoRiskManagement ==
  [CfgFull EXCEPT !.TBT = FALSE, !.PP = FALSE, !.EMA_CROSS_EXIT = "absent", !.EMA = FALSE]

\* ------------------------------------------------------------------------
\* Arithmetic of the code in the integer representation
\* ------------------------------------------------------------------------
\* (price - entry_price) / entry_price * 100, in tenths of a percent.
ProfitPct(price, entry_price) == ((price - entry_price) * 1000) \div entry_price

\* entry_price * (1 - pct / 100)
PriceBelow(entry_price, pct) == (entry_price * (1000 - pct)) \div 1000

\* entry_price * (1 + pct / 100)
PriceAbove(entry_price, pct) == (entry_price * (1000 + pct)) \div 1000

\* ------------------------------------------------------------------------
\* Helpers of execute_advanced_hybrid_premium_trade
\* ------------------------------------------------------------------------
get_premium_tier(entry_price, tiers) ==
  IF \E i \in 1..Len(tiers) : entry_price < tiers[i].threshold
  THEN tiers[CHOOSE i \in 1..Len(tiers) :
               /\ entry_price < tiers[i].threshold
               /\ \A j \in 1..(i - 1) : ~(entry_price < tiers[j].threshold)]
  ELSE tiers[CHOOSE i \in 1..Len(tiers) : tiers[i].name = "HIGH"]

\* The opening adjustment without its floor.
apply_time_based_sl_adjustment_NoFloor(sl_percent, entry_time, c) ==
  LET entry_hour == entry_time \div 60
      entry_minute == entry_time % 60
  IN IF ~c.TBS THEN sl_percent
     ELSE IF entry_hour = 9 \/ (entry_hour = 10 /\ entry_minute <= 15)
          THEN sl_percent - c.OPENING_HOUR_REDUCTION
     ELSE IF entry_hour = 15
          THEN Min(sl_percent + c.CLOSING_HOUR_INCREASE, MaxSlPct)
     ELSE sl_percent

apply_time_based_sl_adjustment(sl_percent, entry_time, c) ==
  LET entry_hour == entry_time \div 60
      entry_minute == entry_time % 60
  IN IF ~c.TBS THEN sl_percent
     ELSE IF entry_hour = 9 \/ (entry_hour = 10 /\ entry_minute <= 15)
          THEN Max(sl_percent - c.OPENING_HOUR_REDUCTION, MinSlPct)
     ELSE IF entry_hour = 15
          THEN Min(sl_percent + c.CLOSING_HOUR_INCREASE, MaxSlPct)
     ELSE sl_percent

\* The branch of the if / elif / else of get_dynamic_sl_percent that the entry
\* bar's K and %R select, by the name of its DYNAMIC_SL block.
dynamic_sl_tier(entry_candle, c) ==
  LET stoch_k == Get(entry_candle.K, 50)
      williams_r == Get(entry_candle.R, -50)
  IN IF Gt(stoch_k, c.DYNAMIC_SL.HIGH_RISK.STOCH_K_THRESHOLD)
        /\ Gt(williams_r, c.DYNAMIC_SL.HIGH_RISK.WILLIAMS_R_THRESHOLD)
     THEN "HIGH_RISK"
     ELSE IF Gt(stoch_k, c.DYNAMIC_SL.MODERATE_RISK.STOCH_K_THRESHOLD)
             /\ Gt(williams_r, c.DYNAMIC_SL.MODERATE_RISK.WILLIAMS_R_THRESHOLD)
     THEN "MODERATE_RISK"
     ELSE "LOW_RISK"

\* The tiers tested in the wrong order: MODERATE shadows HIGH.
base_sl_percent_ModerateFirst(entry_candle, c) ==
  IF entry_candle.K > c.DYNAMIC_SL.MODERATE_RISK.STOCH_K_THRESHOLD
     /\ entry_candle.R > c.DYNAMIC_SL.MODERATE_RISK.WILLIAMS_R_THRESHOLD
  THEN c.DYNAMIC_SL.MODERATE_RISK.SL_PERCENT
  ELSE IF entry_candle.K > c.DYNAMIC_SL.HIGH_RISK.STOCH_K_THRESHOLD
          /\ entry_candle.R > c.DYNAMIC_SL.HIGH_RISK.WILLIAMS_R_THRESHOLD
  THEN c.DYNAMIC_SL.HIGH_RISK.SL_PERCENT
  ELSE c.DYNAMIC_SL.LOW_RISK.SL_PERCENT

\* The base percent chosen by the entry bar's K and %R, before the time-of-day
\* adjustment.
base_sl_percent(entry_candle, c) ==
  c.DYNAMIC_SL[dynamic_sl_tier(entry_candle, c)].SL_PERCENT

get_dynamic_sl_percent(entry_candle, c, tier) ==
  IF ~c.ENH THEN tier.sl_percent
  ELSE apply_time_based_sl_adjustment(base_sl_percent(entry_candle, c),
                                      entry_candle.datetime, c)

assess_entry_risk_level(entry_candle) ==
  LET k == safe_get(Get(entry_candle.K, 50), 50)
      williams_9 == safe_get(Get(entry_candle.R, -50), -50)
  IN IF k > 85 /\ williams_9 > -20 THEN "HIGH_RISK"
     ELSE IF k > 70 /\ williams_9 > -50 THEN "MODERATE_RISK"
     ELSE "LOW_RISK"

\* The candle dictionaries the bar loop passes to the two detectors, as the
\* detectors read them through safe_get.
Candle(k, d, wr9, wr28) ==
  [K |-> safe_get(k, 50), D |-> safe_get(d, 50),
   williams_9 |-> safe_get(wr9, -50), williams_28 |-> safe_get(wr28, -50)]

\* The detector reading only the YELLOW_FLAG_SYSTEM switch, not the master
\* ENHANCED_SL_MANAGEMENT switch.
detect_yellow_flag_conditions_SubSwitchOnly(current_candle, prev_candle, c) ==
  IF ~c.YF THEN {}
  ELSE
    (IF prev_candle.williams_9 <= WILLIAMS_R_CROSS /\ current_candle.williams_9 > WILLIAMS_R_CROSS
     THEN {"Williams %R(9) momentum loss"} ELSE {})
    \cup
    (IF prev_candle.williams_28 <= WILLIAMS_R_CROSS /\ current_candle.williams_28 > WILLIAMS_R_CROSS
     THEN {"Williams %R(28) momentum loss"} ELSE {})
    \cup
    (IF prev_candle.K - current_candle.K >= STOCH_MOMENTUM_DROP
     THEN {"Stoch K momentum drop"} ELSE {})
    \cup
    (IF prev_candle.K >= prev_candle.D /\ current_candle.K < current_candle.D
     THEN {"Stoch K/D bearish crossover"} ELSE {})
    \cup
    (IF current_candle.williams_9 > YF_DOUBLE_REVERSAL /\ current_candle.williams_28 > YF_DOUBLE_REVERSAL
     THEN {"Double Williams reversal risk"} ELSE {})

\* The K drop tested with > : a drop of exactly the threshold raises no flag.
detect_yellow_flag_conditions_StrictDrop(current_candle, prev_candle, c) ==
  IF ~c.ENH \/ ~c.YF THEN {}
  ELSE
    (IF prev_candle.williams_9 <= WILLIAMS_R_CROSS /\ current_candle.williams_9 > WILLIAMS_R_CROSS
     THEN {"Williams %R(9) momentum loss"} ELSE {})
    \cup
    (IF prev_candle.williams_28 <= WILLIAMS_R_CROSS /\ current_candle.williams_28 > WILLIAMS_R_CROSS
     THEN {"Williams %R(28) momentum loss"} ELSE {})
    \cup
    (IF prev_candle.K - current_candle.K > STOCH_MOMENTUM_DROP
     THEN {"Stoch K momentum drop"} ELSE {})
    \cup
    (IF prev_candle.K >= prev_candle.D /\ current_candle.K < current_candle.D
     THEN {"Stoch K/D bearish crossover"} ELSE {})
    \cup
    (IF current_candle.williams_9 > YF_DOUBLE_REVERSAL /\ current_candle.williams_28 > YF_DOUBLE_REVERSAL
     THEN {"Double Williams reversal risk"} ELSE {})

detect_yellow_flag_conditions(current_candle, prev_candle, c) ==
  IF ~c.ENH \/ ~c.YF THEN {}
  ELSE
    (IF prev_candle.williams_9 <= WILLIAMS_R_CROSS /\ current_candle.williams_9 > WILLIAMS_R_CROSS
     THEN {"Williams %R(9) momentum loss"} ELSE {})
    \cup
    (IF prev_candle.williams_28 <= WILLIAMS_R_CROSS /\ current_candle.williams_28 > WILLIAMS_R_CROSS
     THEN {"Williams %R(28) momentum loss"} ELSE {})
    \cup
    (IF prev_candle.K - current_candle.K >= STOCH_MOMENTUM_DROP
     THEN {"Stoch K momentum drop"} ELSE {})
    \cup
    (IF prev_candle.K >= prev_candle.D /\ current_candle.K < current_candle.D
     THEN {"Stoch K/D bearish crossover"} ELSE {})
    \cup
    (IF current_candle.williams_9 > YF_DOUBLE_REVERSAL /\ current_candle.williams_28 > YF_DOUBLE_REVERSAL
     THEN {"Double Williams reversal risk"} ELSE {})

\* The second definition of check_technical_exit_conditions (it replaces the
\* first at import).  The result is the reason, or NULL for (False, None).
check_technical_exit_conditions(current_candle, prev_candle, c) ==
  IF ~c.ENH \/ ~c.TE THEN NULL
  ELSE IF current_candle.williams_9 > WILLIAMS_R_REVERSAL
       THEN "Williams %R(9) reversal"
  ELSE IF current_candle.K > STOCH_EXHAUSTION /\ current_candle.K < prev_candle.K
       THEN "Stoch exhaustion"
  ELSE IF current_candle.williams_9 > TE_DOUBLE_REVERSAL /\ current_candle.williams_28 > TE_DOUBLE_REVERSAL
       THEN "Double Williams reversal signal"
  ELSE IF prev_candle.K > ExtremePrevK /\ current_candle.K < ExtremeCurrK
       THEN "Extreme momentum reversal"
  ELSE IF c.STOCH_BEARISH_CROSS
          /\ prev_candle.K >= prev_candle.D /\ current_candle.K < current_candle.D
          /\ current_candle.K > BearishCrossMinK
       THEN "Stochastic bearish cross"
  ELSE NULL

\* The stage thresholds tested with <= : a profit of exactly 25% stays in
\* stage 1.
get_trailing_stage_config_Inclusive(profit_pct) ==
  IF profit_pct <= STAGE1.PROFIT_THRESHOLD THEN STAGE1
  ELSE IF profit_pct <= STAGE2.PROFIT_THRESHOLD THEN STAGE2
  ELSE STAGE3

get_trailing_stage_config(profit_pct) ==
  IF profit_pct < STAGE1.PROFIT_THRESHOLD THEN STAGE1
  ELSE IF profit_pct < STAGE2.PROFIT_THRESHOLD THEN STAGE2
  ELSE STAGE3

\* The factor is returned in tenths (1.0 -> 10, 0.8 -> 8).
get_time_based_adjustment(minutes_elapsed, c) ==
  IF ~c.TBT THEN 10
  ELSE IF minutes_elapsed > TightenAfterMinutes THEN TIGHTEN_MULTIPLIER
  ELSE 10

\* The protect-after threshold tested with > : a highest high of exactly 30%
\* is not protected.
get_profit_protection_sl_Strict(entry_price, highest_high, c) ==
  IF ~c.PP THEN 0
  ELSE IF ProfitPct(highest_high, entry_price) > PROTECT_AFTER_PCT
       THEN PriceAbove(entry_price, PROTECTION_LEVEL_PCT)
  ELSE 0

get_profit_protection_sl(entry_price, highest_high, c) ==
  IF ~c.PP THEN 0
  ELSE IF ProfitPct(highest_high, entry_price) >= PROTECT_AFTER_PCT
       THEN PriceAbove(entry_price, PROTECTION_LEVEL_PCT)
  ELSE 0

\* bearish_cross is the outcome of the pandas_ta EMA comparison on the closes
\* seen so far (prev_ema_short >= prev_ema_long and ema_short < ema_long); the
\* EMA series is computed by the library, so the model takes the outcome as
\* an input of the bar.
should_exit_on_ema_cross(candle_count, current_profit_pct, c, prev_k, prev_d, current_k, current_d, bearish_cross) ==
  IF ~c.EMA THEN FALSE
  ELSE IF current_profit_pct < EMA_MIN_PROFIT_PCT \/ candle_count < EmaMinCandles THEN FALSE
  ELSE IF candle_count + 1 >= EmaLongPeriod /\ bearish_cross
       THEN IF c.MOMENTUM_WEAKENING /\ ~(Gt(prev_k, prev_d) /\ Le(current_k, current_d))
            THEN FALSE ELSE TRUE
  ELSE FALSE

\* ------------------------------------------------------------------------
\* State
\* ------------------------------------------------------------------------
VARIABLES
  cfg,                      \* trade_config
  dayStart,                 \* minute of the day before the first bar of prices_df
  nbars,                    \* len(prices_df)
  pc,                       \* position of the program
  sigTime,                  \* timestamp of the signal the loop looked at last
  current_trade_exit_time,  \* execute_option_trades
  trade_results,            \* execute_option_trades
  idx,                      \* index in prices_df of the bar processed last
  bar,                      \* the bar processed last
  pos,                      \* the locals of execute_advanced_hybrid_premium_trade
  result,                   \* the record the last simulation returned
  call,                     \* the last call of a helper on its own: arguments and value
  columns,                  \* the oscillator columns of prices_df: "all" present,
                            \* "none" present, or present and all "nan"
  prices_df                 \* execute_index_trades_complex: the rows of prices_df,
                            \* row i at minute dayStart + i (the option paths read
                            \* their rows one at a time and leave this empty)

vars == <<cfg, dayStart, nbars, pc, sigTime, current_trade_exit_time,
          trade_results, idx, bar, pos, result, call, columns, prices_df>>

Exited(p) == p.exit_reason # "In Progress"

\* An exception leaves the simulation: KeyError of trade_config[...] on a
\* block that is absent, AttributeError of .get on a block that is a bool.
Raise(p) == [p EXCEPT !.exit_reason = "Raised"]

\* ------------------------------------------------------------------------
\* execute_advanced_hybrid_premium_trade: set-up before the bar loop
\* ------------------------------------------------------------------------
Upper(trade_type) == IF trade_type = "Call" THEN "CALL" ELSE "PUT"

RECURSIVE SumOf(_, _)
SumOf(seq, f) == IF seq = <<>> THEN 0 ELSE Head(seq)[f] + SumOf(Tail(seq), f)

\* The rows of the window whose column f is a number: Series.mean() skips NaN.
RECURSIVE Valid(_, _)
Valid(seq, f) ==
  IF seq = <<>> THEN <<>>
  ELSE IF Head(seq)[f] = NaN THEN Valid(Tail(seq), f)
  ELSE <<Head(seq)>> \o Valid(Tail(seq), f)

\* window_data[f].mean() > threshold if the column exists, else
\* default > threshold; the mean of no numbers is NaN.
MeanAbove(window_data, f, default, threshold) ==
  IF window_data[1][f] = Absent THEN default > threshold
  ELSE LET rows == Valid(window_data, f)
       IN rows # <<>> /\ SumOf(rows, f) > Len(rows) * threshold

\* The 'Big Move' value of the signal row: [kind |-> "none"] when the column
\* is absent, a bool or a string otherwise, and kind "nan" for an empty cell
\* of the column (bool(nan) is True).
\* trade_data is the sequence of the candles from the entry bar on.
\* The override tested after the check that differentiation is enabled.
detect_big_move_DisabledFirst(trade_data, entry_price, c, trade_type, is_big_move_from_signal) ==
  IF ~c.SD THEN FALSE
  ELSE IF is_big_move_from_signal.kind = "str" THEN is_big_move_from_signal.upper = "TRUE"
  ELSE IF is_big_move_from_signal.kind = "bool" THEN is_big_move_from_signal.val
  ELSE FALSE

detect_big_move(trade_data, entry_price, c, trade_type, is_big_move_from_signal) ==
  IF is_big_move_from_signal.kind = "str" THEN is_big_move_from_signal.upper = "TRUE"
  ELSE IF is_big_move_from_signal.kind = "bool" THEN is_big_move_from_signal.val
  ELSE IF is_big_move_from_signal.kind = "nan" THEN TRUE
  ELSE IF ~c.SD THEN FALSE
  ELSE IF Len(trade_data) < c.AVG_WINDOW_CANDLES THEN FALSE
  ELSE
    LET window_data == SubSeq(trade_data, 1, c.AVG_WINDOW_CANDLES)
        n == Len(window_data)
        th == BIGMOVE_THRESHOLDS[Upper(trade_type)]
        \* mean > threshold, as sum > n * threshold
        primary_condition == /\ MeanAbove(window_data, "K", 50, th.STOCH_K_THRESHOLD)
                             /\ MeanAbove(window_data, "R1", -50, th.WILLIAMS_R1_THRESHOLD)
        first_candle == window_data[1]
        range_too_small == (first_candle.high - first_candle.low) * 1000
                             < MIN_CANDLE_RANGE_PCT * entry_price
        \* range(1, min(consecutive_moves + 1, len(window_data))), counted from 1
        moves_in_direction ==
          Cardinality({i \in 2..Min(c.CONSECUTIVE_MOVES + 1, n) :
                         IF Upper(trade_type) = "CALL"
                         THEN window_data[i].close > window_data[i - 1].close
                         ELSE window_data[i].close < window_data[i - 1].close})
    IN IF c.MC /\ primary_condition
       THEN IF range_too_small THEN FALSE
            ELSE IF n >= c.CONSECUTIVE_MOVES /\ moves_in_direction < c.CONSECUTIVE_MOVES THEN FALSE
            ELSE primary_condition
       ELSE primary_condition

\* trade_data: the entry candle followed by the candles detect_big_move reads
\* ahead.
EnterTrade(trade_data, c, is_big_move_from_signal) ==
  LET entry_candle == trade_data[1]
      entry_price == entry_candle.open
      tier == get_premium_tier(entry_price, PREMIUM_TIERS)
      initial_sl_pct == get_dynamic_sl_percent(entry_candle, c, tier)
      initial_sl == PriceBelow(entry_price, initial_sl_pct)
      is_big_move == detect_big_move(trade_data, entry_price, c, c.trade_type,
                                     is_big_move_from_signal)
  IN [entry_price |-> entry_price,
      entry_time |-> entry_candle.datetime,
      tier |-> tier,
      initial_sl_pct |-> initial_sl_pct,
      initial_sl |-> initial_sl,
      is_big_move |-> is_big_move,
      is_average_signal |-> (~is_big_move /\ c.AVG),
      entry_risk_level |-> assess_entry_risk_level(entry_candle),
      current_sl |-> initial_sl,
      highest_high |-> entry_candle.high,
      trail_active |-> FALSE,
      exit_time |-> NoValue,
      exit_price |-> NoValue,
      exit_reason |-> "In Progress",
      tech_exit_reason |-> NULL,
      candle_count |-> 0,
      stall_count |-> 0,
      breakeven_delay_counter |-> 0,
      yellow_flag_triggered |-> FALSE,
      technical_exit_available |-> FALSE,
      sl_tightened_by_yellow_flag |-> FALSE,
      atr_multiplier |-> 0,
      prev_wr28 |-> Get(entry_candle.R1, 0),
      prev_wr9 |-> Get(entry_candle.R, 0),
      prev_k |-> Get(entry_candle.K, 50),
      prev_d |-> Get(entry_candle.D, 50)]

\* ------------------------------------------------------------------------
\* One iteration of the bar loop, stage by stage
\* ------------------------------------------------------------------------
\* The yellow-flag tightening with the delta added to the stop distance: the
\* level lies below the initial stop and the max() keeps the old stop.
YellowFlagStage_Loosened(p, b, c) ==
  IF p.yellow_flag_triggered THEN p
  ELSE
    LET yellow_flags == detect_yellow_flag_conditions(
                          Candle(b.K, b.D, b.R, b.R1),
                          Candle(p.prev_k, p.prev_d, p.prev_wr9, p.prev_wr28), c)
        tightened_sl == PriceBelow(p.entry_price, p.initial_sl_pct + c.TIGHTEN_SL_PCT)
    IN IF yellow_flags = {} THEN p
       ELSE [p EXCEPT !.yellow_flag_triggered = TRUE,
                      !.current_sl = IF ~p.sl_tightened_by_yellow_flag
                                     THEN Max(p.current_sl, tightened_sl) ELSE @,
                      !.sl_tightened_by_yellow_flag = TRUE]

\* The yellow-flag tightening without the max(): the stop is set to the
\* tightened level even when it is already higher.
YellowFlagStage_NoRatchet(p, b, c) ==
  IF p.yellow_flag_triggered THEN p
  ELSE
    LET yellow_flags == detect_yellow_flag_conditions(
                          Candle(b.K, b.D, b.R, b.R1),
                          Candle(p.prev_k, p.prev_d, p.prev_wr9, p.prev_wr28), c)
        tightened_sl == PriceBelow(p.entry_price, p.initial_sl_pct - c.TIGHTEN_SL_PCT)
    IN IF yellow_flags = {} THEN p
       ELSE [p EXCEPT !.yellow_flag_triggered = TRUE,
                      !.current_sl = IF ~p.sl_tightened_by_yellow_flag
                                     THEN tightened_sl ELSE @,
                      !.sl_tightened_by_yellow_flag = TRUE]

YellowFlagStage(p, b, c) ==
  IF p.yellow_flag_triggered THEN p
  ELSE
    LET yellow_flags == detect_yellow_flag_conditions(
                          Candle(b.K, b.D, b.R, b.R1),
                          Candle(p.prev_k, p.prev_d, p.prev_wr9, p.prev_wr28), c)
        tightened_sl == PriceBelow(p.entry_price, p.initial_sl_pct - c.TIGHTEN_SL_PCT)
    IN IF yellow_flags = {} THEN p
       ELSE [p EXCEPT !.yellow_flag_triggered = TRUE,
                      !.current_sl = IF ~p.sl_tightened_by_yellow_flag
                                     THEN Max(p.current_sl, tightened_sl) ELSE @,
                      !.sl_tightened_by_yellow_flag = TRUE]

\* The gating before the BigMove fix: a small profit exits whatever the trade.
should_exit_on_technical_NoBigMoveGuard(current_profit_pct, is_big_move, entry_risk_level) ==
  IF current_profit_pct < TechLossPct THEN TRUE
  ELSE IF current_profit_pct < TechSmallProfitPct THEN TRUE
  ELSE IF entry_risk_level = "HIGH_RISK" /\ current_profit_pct < 0 THEN TRUE
  ELSE FALSE

\* The gating with the HIGH_RISK clause testing the small-profit threshold.
should_exit_on_technical_HighRiskSmallProfit(current_profit_pct, is_big_move, entry_risk_level) ==
  IF current_profit_pct < TechLossPct THEN TRUE
  ELSE IF current_profit_pct < TechSmallProfitPct /\ ~is_big_move THEN TRUE
  ELSE IF entry_risk_level = "HIGH_RISK" /\ current_profit_pct < TechSmallProfitPct THEN TRUE
  ELSE FALSE

should_exit_on_technical(current_profit_pct, is_big_move, entry_risk_level) ==
  IF current_profit_pct < TechLossPct THEN TRUE
  ELSE IF current_profit_pct < TechSmallProfitPct /\ ~is_big_move THEN TRUE
  ELSE IF entry_risk_level = "HIGH_RISK" /\ current_profit_pct < 0 THEN TRUE
  ELSE FALSE

\* The stage without the latch: the conditions are evaluated on every bar.
TechnicalExitStage_NoLatch(p, b, c) ==
  LET tech_exit_reason == check_technical_exit_conditions(
                            Candle(b.K, b.D, b.R, b.R1),
                            Candle(p.prev_k, p.prev_d, p.prev_wr9, p.prev_wr28), c)
      current_profit_pct == ProfitPct(b.close, p.entry_price)
      emergency_sl == PriceBelow(p.entry_price, p.initial_sl_pct - TechNudgePct)
  IN IF tech_exit_reason = NULL THEN p
     ELSE IF should_exit_on_technical(current_profit_pct, p.is_big_move, p.entry_risk_level)
     THEN [p EXCEPT !.technical_exit_available = TRUE,
                    !.exit_price = b.close,
                    !.exit_time = b.datetime,
                    !.exit_reason = "Enhanced Technical Exit",
                    !.tech_exit_reason = tech_exit_reason]
     ELSE IF ~p.sl_tightened_by_yellow_flag /\ current_profit_pct < 0
     THEN [p EXCEPT !.technical_exit_available = TRUE,
                    !.current_sl = Max(p.current_sl, emergency_sl)]
     ELSE [p EXCEPT !.technical_exit_available = TRUE]

TechnicalExitStage(p, b, c) ==
  IF p.technical_exit_available THEN p
  ELSE
    LET tech_exit_reason == check_technical_exit_conditions(
                              Candle(b.K, b.D, b.R, b.R1),
                              Candle(p.prev_k, p.prev_d, p.prev_wr9, p.prev_wr28), c)
        current_profit_pct == ProfitPct(b.close, p.entry_price)
        emergency_sl == PriceBelow(p.entry_price, p.initial_sl_pct - TechNudgePct)
    IN IF tech_exit_reason = NULL THEN p
       ELSE IF should_exit_on_technical(current_profit_pct, p.is_big_move, p.entry_risk_level)
       THEN [p EXCEPT !.technical_exit_available = TRUE,
                      !.exit_price = b.close,
                      !.exit_time = b.datetime,
                      !.exit_reason = "Enhanced Technical Exit",
                      !.tech_exit_reason = tech_exit_reason]
       ELSE IF ~p.sl_tightened_by_yellow_flag /\ current_profit_pct < 0
       THEN [p EXCEPT !.technical_exit_available = TRUE,
                      !.current_sl = Max(p.current_sl, emergency_sl)]
       ELSE [p EXCEPT !.technical_exit_available = TRUE]

\* The fixed take-profit filled at the bar's high instead of entry + points.
AverageSignalStage_TpAtHigh(p, b, c) ==
  IF b.high >= p.entry_price + FIXED_TP_POINTS
  THEN [p EXCEPT !.exit_price = b.high,
                 !.exit_time = b.datetime,
                 !.exit_reason = "Fixed TP (Average Signal)"]
  ELSE p

AverageSignalStage(p, b, c) ==
  LET current_profit_pct == ProfitPct(b.close, p.entry_price)
      sl_breakeven == IF current_profit_pct >= BREAKEVEN_AFTER_PCT
                      THEN Max(p.current_sl, p.entry_price) ELSE p.current_sl
      candle_range == b.high - b.low
      stall_count == IF candle_range * 1000 < p.entry_price * STALL_THRESHOLD_PCT
                     THEN p.stall_count + 1 ELSE 0
      sl_stall == IF stall_count >= AVG_STALL_CANDLES
                  THEN Max(sl_breakeven, Min(b.close, p.entry_price)) ELSE sl_breakeven
      williams28_cross == /\ Gt(p.prev_wr28, WILLIAMS28_CROSS_UNDER)
                          /\ Le(b.R1, WILLIAMS28_CROSS_UNDER)
      williams9_cross == /\ current_profit_pct > WilliamsMinProfitPct
                         /\ Gt(p.prev_wr9, WILLIAMS9_CROSS_UNDER)
                         /\ Le(b.R, WILLIAMS9_CROSS_UNDER)
      q == [p EXCEPT !.current_sl = sl_stall, !.stall_count = stall_count]
  IN IF b.high >= p.entry_price + FIXED_TP_POINTS
     THEN [p EXCEPT !.exit_price = p.entry_price + FIXED_TP_POINTS,
                    !.exit_time = b.datetime,
                    !.exit_reason = "Fixed TP (Average Signal)"]
     ELSE IF c.QUICK_EXIT_CONDITIONS = "absent" THEN Raise(p)
     ELSE IF c.WILLIAMS_EXIT_ENABLED /\ (williams28_cross \/ williams9_cross)
     THEN [q EXCEPT !.exit_price = b.close,
                    !.exit_time = b.datetime,
                    !.exit_reason = "Williams Exit (Average Signal)"]
     ELSE q

BigMoveStage(p, b, c) ==
  LET profit_pct == ProfitPct(p.highest_high, p.entry_price)
      current_profit_pct == ProfitPct(b.close, p.entry_price)
      trail_active == p.trail_active \/ profit_pct >= p.tier.trail_start_pct
      trailing_config == get_trailing_stage_config(profit_pct)
      minutes_elapsed == b.datetime - p.entry_time
      time_adjustment == get_time_based_adjustment(minutes_elapsed, c)
      atr_multiplier == trailing_config.ATR_MULTIPLIER * time_adjustment
      min_sl == PriceBelow(p.entry_price, trailing_config.MIN_SL_PCT)
      protected_sl == get_profit_protection_sl(p.entry_price, p.highest_high, c)
      trailed_sl == Max3(p.highest_high - (b.atr * atr_multiplier) \div 100,
                         min_sl, protected_sl)
      q == IF trail_active
           THEN [p EXCEPT !.trail_active = TRUE,
                          !.atr_multiplier = atr_multiplier,
                          !.current_sl = Max(p.current_sl, trailed_sl)]
           ELSE p
  IN IF trail_active /\ c.SIGNAL_DIFFERENTIATION = "absent" THEN Raise(p)
     ELSE IF c.SIGNAL_DIFFERENTIATION = "absent" \/ c.EMA_CROSS_EXIT = "bool" THEN Raise(q)
     ELSE IF should_exit_on_ema_cross(p.candle_count, current_profit_pct, c,
                                 p.prev_k, p.prev_d, b.K, b.D, b.ema_bearish_cross)
     THEN [q EXCEPT !.exit_price = b.close,
                    !.exit_time = b.datetime,
                    !.exit_reason = "Enhanced EMA Exit (BigMove)"]
     ELSE q

RegularStage(p, b, c) ==
  LET profit_pct == ProfitPct(p.highest_high, p.entry_price)
      trail_active == p.trail_active \/ profit_pct >= p.tier.trail_start_pct
      min_sl == PriceBelow(p.entry_price, RegularMinSlPct)
      trailed_sl == Max(p.highest_high - (b.atr * RegularAtrMultiplier) \div 10, min_sl)
      sl_trail == IF trail_active THEN Max(p.current_sl, trailed_sl) ELSE p.current_sl
      breakeven_delay_counter == IF profit_pct >= BREAKEVEN_MOVE_PCT
                                 THEN p.breakeven_delay_counter + 1
                                 ELSE p.breakeven_delay_counter
      sl_breakeven == IF profit_pct >= BREAKEVEN_MOVE_PCT
                         /\ breakeven_delay_counter >= p.tier.breakeven_delay
                      THEN Max(sl_trail, p.entry_price) ELSE sl_trail
      q == [p EXCEPT !.trail_active = trail_active,
                     !.current_sl = sl_breakeven,
                     !.breakeven_delay_counter = breakeven_delay_counter]
  IN IF /\ b.high >= p.entry_price + c.QUICK_TP_POINTS
        /\ (~c.USE_STOCH_FADE_FOR_TP \/ (Gt(p.prev_k, p.prev_d) /\ Le(b.K, b.D)))
     THEN [q EXCEPT !.exit_price = p.entry_price + c.QUICK_TP_POINTS,
                    !.exit_time = b.datetime,
                    !.exit_reason = "Quick TP"]
     ELSE q

\* The stop filled at the bar's low instead of the stop level.
StopCheck_ExitAtLow(p, b) ==
  IF b.low <= p.current_sl
  THEN [p EXCEPT !.exit_price = b.low,
                 !.exit_time = b.datetime,
                 !.exit_reason = IF p.trail_active THEN "Trailing SL" ELSE "SL Hit"]
  ELSE p

StopCheck(p, b) ==
  IF b.low <= p.current_sl
  THEN [p EXCEPT !.exit_price = p.current_sl,
                 !.exit_time = b.datetime,
                 !.exit_reason = IF p.trail_active THEN "Trailing SL" ELSE "SL Hit"]
  ELSE p

UpdateHighestHigh(p, b) ==
  [p EXCEPT !.candle_count = p.candle_count + 1,
            !.highest_high = Max(p.highest_high, b.high)]

\* The bar as the loop reads it: bar.get('K', 50), bar.get('D', 50),
\* bar.get('%R', 0), bar.get('%R.1', 0).
LoopRead(bar_row) ==
  [bar_row EXCEPT !.K = Get(@, 50), !.D = Get(@, 50), !.R = Get(@, 0), !.R1 = Get(@, 0)]

\* The bar loop with the stop check moved in front of the take-profit stages.
BarIteration_StopFirst(p, bar_row, c) ==
  LET B == {LoopRead(bar_row)}
      P0 == {UpdateHighestHigh(p, b) : b \in B}
      P1 == {YellowFlagStage(p0, b, c) : p0 \in P0, b \in B}
      P2 == {TechnicalExitStage(p1, b, c) : p1 \in P1, b \in B}
      P3 == {IF Exited(p2) THEN p2 ELSE StopCheck(p2, b) : p2 \in P2, b \in B}
      P4 == {IF Exited(p3) THEN p3
             ELSE IF p3.is_average_signal THEN AverageSignalStage(p3, b, c)
             ELSE IF p3.is_big_move THEN BigMoveStage(p3, b, c)
             ELSE RegularStage(p3, b, c) : p3 \in P3, b \in B}
  IN CHOOSE q \in {IF Exited(p4) THEN p4
                   ELSE [p4 EXCEPT !.prev_wr28 = b.R1, !.prev_wr9 = b.R,
                                   !.prev_k = b.K, !.prev_d = b.D] : p4 \in P4, b \in B} : TRUE

\* Each stage works on the state the stage before it left; the sets hold that
\* one state, so that it is computed once per bar.
BarIteration(p, bar_row, c) ==
  LET B == {LoopRead(bar_row)}
      P0 == {UpdateHighestHigh(p, b) : b \in B}
      P1 == {YellowFlagStage(p0, b, c) : p0 \in P0, b \in B}
      P2 == {TechnicalExitStage(p1, b, c) : p1 \in P1, b \in B}
      P3 == {IF Exited(p2) THEN p2
             ELSE IF p2.is_average_signal THEN AverageSignalStage(p2, b, c)
             ELSE IF p2.is_big_move THEN BigMoveStage(p2, b, c)
             ELSE RegularStage(p2, b, c) : p2 \in P2, b \in B}
      P4 == {IF Exited(p3) THEN p3 ELSE StopCheck(p3, b) : p3 \in P3, b \in B}
  IN CHOOSE q \in {IF Exited(p4) THEN p4
                   ELSE [p4 EXCEPT !.prev_wr28 = b.R1, !.prev_wr9 = b.R,
                                   !.prev_k = b.K, !.prev_d = b.D] : p4 \in P4, b \in B} : TRUE

\* The End of Data exit priced at the last bar's open.
EndOfData_AtOpen(p, last) ==
  IF p.exit_reason = "In Progress"
  THEN [p EXCEPT !.exit_price = last.open,
                 !.exit_time = last.datetime,
                 !.exit_reason = "End of Data"]
  ELSE p

\* The bar loop without the End of Data fallback.
EndOfData_Missing(p, last) == p

\* After the loop: the End of Data exit on the last bar of trade_data.
EndOfData(p, last) ==
  IF p.exit_reason = "In Progress"
  THEN [p EXCEPT !.exit_price = last.close,
                 !.exit_time = last.datetime,
                 !.exit_reason = "End of Data"]
  ELSE p

\* The returned record; the prices are the values formatted to two decimals.
TradeRecord(p) ==
  [EntryTime |-> p.entry_time,
   EntryPrice |-> p.entry_price,
   ExitTime |-> p.exit_time,
   ExitPrice |-> p.exit_price,
   PL |-> p.exit_price - p.entry_price,
   ExitReason |-> p.exit_reason,
   InitialSL |-> p.initial_sl,
   FinalSL |-> p.current_sl,
   HighestHigh |-> p.highest_high,
   BigMove |-> p.is_big_move]

\* ------------------------------------------------------------------------
\* Inputs
\* ------------------------------------------------------------------------
\* The runs: the configuration with the minute of the day before the first
\* bar (10:13, 10:59, 14:59); the time of day matters to the code only under
\* TIME_BASED_SL.
Runs ==
  { <<CfgFull, 613>>, <<CfgFull, 659>>, <<CfgFull, 899>>,
    <<CfgNoEnh, 659>>, <<CfgNoAvg, 659>>, <<CfgPlain, 659>> }

\* <<K, D, %R, %R.1>>
Indicators ==
  { <<60, 50, -90, -90>>, <<95, 93, -90, -90>>, <<92, 93, -90, -90>>,
    <<60, 50, -30, -90>>, <<60, 50, -10, -90>>, <<60, 50, -30, -30>>,
    <<95, 93, -10, -30>>, <<80, 50, -30, -90>> }

\* <<open, high, low, close, ATR>> around an entry price of 100.00
Prices ==
  { <<10000, 10050,  9950, 10000, 100>>, <<9900, 10050,  9400,  9600, 400>>,
    <<10000, 10050,  9850,  9900, 100>>, <<10100, 10600, 10000, 10500, 400>>,
    <<10500, 11000, 10400, 10900, 100>>, <<11000, 11500, 10900, 11400, 100>>,
    <<11500, 12500, 11400, 12400, 400>>, <<12500, 15000, 12400, 14900, 100>>,
    <<10500, 11000,  9900, 10000, 400>>, <<12500, 13000, 12400, 12900, 400>>,
    <<10500, 11000,  9400, 10900, 400>> }

EntryPrices == { <<10000, 10050, 9950, 10000, 100>>, <<10000, 10600, 10000, 10500, 100>> }

MkBar(i, x, cross) ==
  [K |-> i[1], D |-> i[2], R |-> i[3], R1 |-> i[4],
   open |-> x[1], high |-> x[2], low |-> x[3], close |-> x[4], atr |-> x[5],
   ema_bearish_cross |-> cross, datetime |-> 0]

\* The EMA comparison can only matter on a bar whose close is 20% in profit.
Bars ==
  {MkBar(i, x, FALSE) : i \in Indicators, x \in Prices}
  \cup {MkBar(i, x, TRUE) : i \in Indicators, x \in {y \in Prices : y[4] >= 12000}}

EntryBars ==
  {MkBar(i, x, FALSE) : i \in Indicators \cup {<<90, 85, -10, -30>>}, x \in EntryPrices}

\* The candles after the entry bar that detect_big_move averages over.
LookAhead ==
  { << MkBar(<<95, 93, -10, -30>>, <<10500, 11000, 10400, 10900, 100>>, FALSE),
       MkBar(<<95, 93, -10, -30>>, <<10500, 11000, 10400, 10900, 100>>, FALSE) >>,
    << MkBar(<<95, 93, -10, -30>>, <<9900, 10050, 9400, 9600, 400>>, FALSE),
       MkBar(<<95, 93, -10, -30>>, <<10000, 10050, 9850, 9900, 100>>, FALSE) >>,
    << MkBar(<<60, 50, -90, -90>>, <<10000, 10050, 9950, 10000, 100>>, FALSE),
       MkBar(<<60, 50, -90, -90>>, <<10000, 10050, 9950, 10000, 100>>, FALSE) >> }

BigMoveFlags ==
  { [kind |-> "none"], [kind |-> "bool", val |-> TRUE], [kind |-> "bool", val |-> FALSE],
    [kind |-> "str", upper |-> "TRUE"], [kind |-> "str", upper |-> "FALSE"] }

At(b, t) == [b EXCEPT !.datetime = t]

\* The columns of a bar that the state keeps.
Columns(b) ==
  [datetime |-> b.datetime, open |-> b.open, high |-> b.high, low |-> b.low,
   close |-> b.close, atr |-> b.atr]

NoBar == Columns(MkBar(<<0, 0, 0, 0>>, <<0, 0, 0, 0, 0>>, FALSE))

NoPos == [exit_reason |-> "None"]

NoResult == [ExitReason |-> "None"]

NoCall == [fn |-> "None"]

\* The oscillator values of a bar of a series without the oscillator columns,
\* or with the columns all NaN.
MissingIndicators(mode) ==
  IF mode = "none" THEN <<Absent, Absent, Absent, Absent>> ELSE <<NaN, NaN, NaN, NaN>>

BarsOf(mode) ==
  IF mode = "all" THEN Bars
  ELSE {MkBar(MissingIndicators(mode), x, FALSE) : x \in Prices}
       \cup {MkBar(MissingIndicators(mode), x, TRUE) : x \in {y \in Prices : y[4] >= 12000}}

EntryBarsOf(mode) ==
  IF mode = "all" THEN EntryBars
  ELSE {MkBar(MissingIndicators(mode), x, FALSE) : x \in EntryPrices}

LookAheadOf(mode) ==
  IF mode = "all" THEN LookAhead
  ELSE { << MkBar(MissingIndicators(mode), <<10500, 11000, 10400, 10900, 100>>, FALSE),
            MkBar(MissingIndicators(mode), <<10500, 11000, 10400, 10900, 100>>, FALSE) >> }

\* ------------------------------------------------------------------------
\* execute_advanced_hybrid_premium_trade called on its own
\* ------------------------------------------------------------------------
Init ==
  /\ \E r \in Runs : cfg = r[1] /\ dayStart = r[2]
  /\ nbars \in 1..MaxBars
  /\ pc = "call"
  /\ sigTime = dayStart
  /\ current_trade_exit_time = NoValue
  /\ trade_results = <<>>
  /\ idx = 0
  /\ bar = NoBar
  /\ pos = NoPos
  /\ result = NoResult
  /\ call = NoCall
  /\ columns = "all"
  /\ prices_df = <<>>

\* The entry bar is bar entry_idx of prices_df; trade_data is the rest of the
\* series from it.
Enter(entry_idx, eb, la, flag) ==
  LET entry_candle == At(eb, dayStart + entry_idx)
      ahead == SubSeq(la, 1, Min(Len(la), nbars - entry_idx))
      p == EnterTrade(<<entry_candle>> \o ahead, cfg, flag)
  IN /\ idx' = entry_idx
     /\ bar' = Columns(entry_candle)
     /\ pos' = IF entry_idx = nbars THEN EndOfData(p, entry_candle) ELSE p

Iterate(b) ==
  LET current == At(b, dayStart + idx + 1)
      q == BarIteration(pos, current, cfg)
  IN /\ idx < nbars
     /\ idx' = idx + 1
     /\ bar' = Columns(current)
     /\ pos' = IF idx + 1 = nbars THEN EndOfData(q, current) ELSE q

\* The bar loop is over: a rule exited, or trade_data is exhausted.
LoopOver == Exited(pos') \/ idx' = nbars

\* The simulation was left by an exception.
Raised == pos'.exit_reason = "Raised"

Call ==
  /\ pc = "call"
  /\ \E eb \in EntryBarsOf(columns), la \in LookAheadOf(columns), flag \in BigMoveFlags :
       Enter(1, eb, la, flag)
  /\ pc' = IF Raised THEN "raised" ELSE IF LoopOver THEN "done" ELSE "bars"
  /\ result' = IF LoopOver /\ ~Raised THEN TradeRecord(pos') ELSE result
  /\ UNCHANGED <<cfg, columns, prices_df, dayStart, nbars, sigTime, current_trade_exit_time, trade_results, call>>

ProcessBar ==
  /\ pc = "bars"
  /\ \E b \in BarsOf(columns) : Iterate(b)
  /\ pc' = IF Raised THEN "raised" ELSE IF LoopOver THEN "done" ELSE "bars"
  /\ result' = IF LoopOver /\ ~Raised THEN TradeRecord(pos') ELSE result
  /\ UNCHANGED <<cfg, columns, prices_df, dayStart, nbars, sigTime, current_trade_exit_time, trade_results, call>>

Next == Call \/ ProcessBar

Spec == Init /\ [][Next]_vars

\* The same function on a series whose oscillator columns are missing or NaN.
MissingRuns == { <<CfgFull, 659>>, <<CfgFull, 613>>, <<CfgNoAvg, 659>>, <<CfgPlain, 659>> }

InitMissing ==
  /\ \E r \in MissingRuns : cfg = r[1] /\ dayStart = r[2]
  /\ columns \in {"none", "nan"}
  /\ prices_df = <<>>
  /\ nbars \in 1..MaxBars
  /\ pc = "call"
  /\ sigTime = dayStart
  /\ current_trade_exit_time = NoValue
  /\ trade_results = <<>>
  /\ idx = 0
  /\ bar = NoBar
  /\ pos = NoPos
  /\ result = NoResult
  /\ call = NoCall

SpecMissing == InitMissing /\ [][Next]_vars

\* The same function under configurations with optional blocks absent or
\* malformed.
FaultyRuns ==
  { <<CfgFallback, 659>>, <<CfgNoSignalDiff, 659>>, <<CfgNoQuickExit, 659>>,
    <<CfgNoRiskManagement, 659>> }

InitFaulty ==
  /\ \E r \in FaultyRuns : cfg = r[1] /\ dayStart = r[2]
  /\ columns = "all"
  /\ prices_df = <<>>
  /\ nbars \in 1..MaxBars
  /\ pc = "call"
  /\ sigTime = dayStart
  /\ current_trade_exit_time = NoValue
  /\ trade_results = <<>>
  /\ idx = 0
  /\ bar = NoBar
  /\ pos = NoPos
  /\ result = NoResult
  /\ call = NoCall

SpecFaulty == InitFaulty /\ [][Next]_vars

\* The same function under other values of TIGHTEN_SL_PCT, entered in the
\* opening hour and mid-session.
TightenRuns == { <<CfgWideTighten, 613>>, <<CfgNarrowTighten, 659>> }

InitTighten ==
  /\ \E r \in TightenRuns : cfg = r[1] /\ dayStart = r[2]
  /\ columns = "all"
  /\ prices_df = <<>>
  /\ nbars \in 1..MaxBars
  /\ pc = "call"
  /\ sigTime = dayStart
  /\ current_trade_exit_time = NoValue
  /\ trade_results = <<>>
  /\ idx = 0
  /\ bar = NoBar
  /\ pos = NoPos
  /\ result = NoResult
  /\ call = NoCall

SpecTighten == InitTighten /\ [][Next]_vars

\* ------------------------------------------------------------------------
\* execute_option_trades: the loop over the signals
\* ------------------------------------------------------------------------
StreamRuns == { <<CfgFull, 659>>, <<CfgFull, 897>>, <<CfgPlain, 659>> }

StreamIndicators == { <<60, 50, -90, -90>>, <<95, 93, -10, -30>> }

StreamPrices ==
  { <<10000, 10050,  9950, 10000, 100>>, <<9900, 10050,  9400,  9600, 400>>,
    <<10500, 11000, 10400, 10900, 100>> }

StreamBars == {MkBar(i, x, FALSE) : i \in StreamIndicators, x \in StreamPrices}

StreamEntryBars == {MkBar(i, x, FALSE) : i \in StreamIndicators, x \in EntryPrices}

StreamFlags == { [kind |-> "bool", val |-> TRUE], [kind |-> "bool", val |-> FALSE] }

InitStream ==
  /\ \E r \in StreamRuns : cfg = r[1] /\ dayStart = r[2]
  /\ nbars \in 1..MaxStreamBars
  /\ pc = "signals"
  /\ sigTime = dayStart
  /\ current_trade_exit_time = NoValue
  /\ trade_results = <<>>
  /\ idx = 0
  /\ bar = NoBar
  /\ pos = NoPos
  /\ result = NoResult
  /\ call = NoCall
  /\ columns = "all"
  /\ prices_df = <<>>

\* The timestamps a signal row can carry: those of the bars, one before the
\* first bar and one after the last; the rows come in time order.
SignalTimes == {t \in dayStart..(dayStart + nbars + 1) : t >= sigTime}

TooLate(t) == t > LAST_ENTRY_TIME

\* The active-trade test with < for <=: a signal at the exit minute passes.
ActiveTrade_Strict(t) == current_trade_exit_time # NoValue /\ t < current_trade_exit_time

ActiveTrade(t) == current_trade_exit_time # NoValue /\ t <= current_trade_exit_time

InPrices(t) == t \in (dayStart + 1)..(dayStart + nbars)

\* The position counted from 0 where the loop counts from 1: the signal on
\* the last bar finds a next bar.
get_loc_OffByOne(t) == t - dayStart - 1

\* prices_df.index.get_loc(signal_time), counted from 1
get_loc(t) == t - dayStart

Skip(t) ==
  /\ sigTime' = t
  /\ UNCHANGED <<cfg, columns, prices_df, dayStart, nbars, pc, current_trade_exit_time, trade_results,
                 idx, bar, pos, result, call>>

SkipLate ==
  /\ pc = "signals"
  /\ \E t \in SignalTimes : TooLate(t) /\ Skip(t)

SkipActive ==
  /\ pc = "signals"
  /\ \E t \in SignalTimes : ~TooLate(t) /\ ActiveTrade(t) /\ Skip(t)

SkipNoBar ==
  /\ pc = "signals"
  /\ \E t \in SignalTimes : ~TooLate(t) /\ ~ActiveTrade(t) /\ ~InPrices(t) /\ Skip(t)

SkipNoNext ==
  /\ pc = "signals"
  /\ \E t \in SignalTimes :
       /\ ~TooLate(t) /\ ~ActiveTrade(t) /\ InPrices(t)
       /\ get_loc(t) + 1 > nbars
       /\ Skip(t)

\* The lines after the simulation returns: the record is appended and the
\* exit time remembered.
\* An exception of the simulation is not caught: it leaves
\* execute_option_trades, which returns nothing.
Collect ==
  /\ pc' = IF Raised THEN "raised" ELSE IF LoopOver THEN "signals" ELSE "trade"
  /\ result' = IF LoopOver /\ ~Raised THEN TradeRecord(pos') ELSE result
  /\ trade_results' = IF LoopOver /\ ~Raised THEN Append(trade_results, TradeRecord(pos'))
                      ELSE trade_results
  /\ current_trade_exit_time' = IF LoopOver /\ ~Raised THEN pos'.exit_time
                                ELSE current_trade_exit_time

Admit ==
  /\ pc = "signals"
  /\ \E t \in SignalTimes :
       /\ ~TooLate(t) /\ ~ActiveTrade(t) /\ InPrices(t)
       /\ get_loc(t) + 1 <= nbars
       /\ sigTime' = t
       /\ \E eb \in StreamEntryBars, flag \in StreamFlags :
            Enter(get_loc(t) + 1, eb, <<>>, flag)
  /\ Collect
  /\ UNCHANGED <<cfg, columns, prices_df, dayStart, nbars, call>>

TradeBar ==
  /\ pc = "trade"
  /\ \E b \in StreamBars : Iterate(b)
  /\ Collect
  /\ UNCHANGED <<cfg, columns, prices_df, dayStart, nbars, sigTime, call>>

Return ==
  /\ pc = "signals"
  /\ pc' = "returned"
  /\ UNCHANGED <<cfg, columns, prices_df, dayStart, nbars, sigTime, current_trade_exit_time, trade_results,
                 idx, bar, pos, result, call>>

NextStream ==
  SkipLate \/ SkipActive \/ SkipNoBar \/ SkipNoNext \/ Admit \/ TradeBar \/ Return

SpecStream == InitStream /\ [][NextStream]_vars

\* The program is sequential: once a simulation has started, its bar loop
\* keeps running.
SpecStreamFair == SpecStream /\ WF_vars(TradeBar)

\* The signal loop under the configuration load_trade_config falls back to,
\* and under one without the SIGNAL_DIFFERENTIATION block.
StreamFaultyRuns == { <<CfgFallback, 659>>, <<CfgFallback, 897>>, <<CfgNoSignalDiff, 659>> }

InitStreamFaulty ==
  /\ \E r \in StreamFaultyRuns : cfg = r[1] /\ dayStart = r[2]
  /\ columns = "all"
  /\ prices_df = <<>>
  /\ nbars \in 1..MaxStreamBars
  /\ pc = "signals"
  /\ sigTime = dayStart
  /\ current_trade_exit_time = NoValue
  /\ trade_results = <<>>
  /\ idx = 0
  /\ bar = NoBar
  /\ pos = NoPos
  /\ result = NoResult
  /\ call = NoCall

SpecStreamFaulty == InitStreamFaulty /\ [][NextStream]_vars

\* ------------------------------------------------------------------------
\* The helpers called on their own, on inputs drawn from bounded sets
\* ------------------------------------------------------------------------
InitHelpers ==
  /\ cfg = CfgFull
  /\ dayStart = 659
  /\ nbars = 1
  /\ pc = "helpers"
  /\ sigTime = dayStart
  /\ current_trade_exit_time = NoValue
  /\ trade_results = <<>>
  /\ idx = 0
  /\ bar = NoBar
  /\ pos = NoPos
  /\ result = NoResult
  /\ call = NoCall
  /\ columns = "all"
  /\ prices_df = <<>>

\* The helper returns to its caller; nothing else changes.
Returned ==
  /\ pc' = "returned"
  /\ UNCHANGED <<cfg, columns, prices_df, dayStart, nbars, sigTime, current_trade_exit_time,
                 trade_results, idx, bar, pos, result>>

\* Base SL percents (tenths), entry times (minute of the day) and the
\* TIME_BASED_SL block: {ENABLED, OPENING_HOUR_REDUCTION, CLOSING_HOUR_INCREASE}.
BasePercents == {15, 20, 25, 35, 50, 70, 95, 100, 120}

EntryTimes == {540, 555, 599, 600, 615, 616, 660, 899, 900, 930, 959, 960}

TimeDeltas == {0, 10, 40}

CallTimeAdjustment ==
  /\ pc = "helpers"
  /\ \E sl \in BasePercents, t \in EntryTimes, en \in BOOLEAN,
        red \in TimeDeltas, inc \in TimeDeltas :
       LET c == [CfgFull EXCEPT !.TBS = en, !.OPENING_HOUR_REDUCTION = red,
                                !.CLOSING_HOUR_INCREASE = inc]
       IN call' = [fn |-> "apply_time_based_sl_adjustment",
                   sl_percent |-> sl, entry_time |-> t, enabled |-> en,
                   OPENING_HOUR_REDUCTION |-> red, CLOSING_HOUR_INCREASE |-> inc,
                   value |-> apply_time_based_sl_adjustment(sl, t, c)]
  /\ Returned

\* PREMIUM_TIERS blocks, each in the order of the keys of the mapping: the
\* fallback configuration, one with other thresholds, and the fallback tiers
\* written from HIGH down to LOW.
TierSets ==
  { PREMIUM_TIERS,
    << [PREMIUM_TIERS[1] EXCEPT !.threshold = 5000],
       [PREMIUM_TIERS[2] EXCEPT !.threshold = 10000],
       PREMIUM_TIERS[3] >>,
    << PREMIUM_TIERS[3], PREMIUM_TIERS[2], PREMIUM_TIERS[1] >> }

TierPrices == {100, 4999, 5000, 9999, 10000, 10001, 24999, 25000, 25001, 90000}

CallPremiumTier ==
  /\ pc = "helpers"
  /\ \E entry_price \in TierPrices, tiers \in TierSets :
       call' = [fn |-> "get_premium_tier", entry_price |-> entry_price,
                tiers |-> tiers, value |-> get_premium_tier(entry_price, tiers)]
  /\ Returned

\* The longest series handed to detect_big_move on its own, and the largest
\* AVG_WINDOW_CANDLES and CONSECUTIVE_MOVES.
MaxWindow == 3

\* Candles around an entry price of 100.00: strong or weak oscillators, a
\* first-candle range above or below 1.2%, closes that rise or fall.
DetectCandles ==
  { MkBar(<<95, 93, -10,  -2>>, <<10000, 10100,  9900, 10000, 100>>, FALSE),
    MkBar(<<95, 93, -10,  -2>>, <<10000, 10120, 10070, 10100, 100>>, FALSE),
    MkBar(<<95, 93, -10, -30>>, <<10000, 10000,  9890,  9900, 100>>, FALSE),
    MkBar(<<60, 50, -90, -90>>, <<10000, 10020,  9980, 10000, 100>>, FALSE),
    MkBar(<<95, 93, -10, -30>>, <<10000, 10250, 10050, 10200, 100>>, FALSE) }

DetectSeries == UNION {[1..n -> DetectCandles] : n \in 1..MaxWindow}

DetectConfigs ==
  {[CfgFull EXCEPT !.SD = sd, !.MC = mc, !.AVG_WINDOW_CANDLES = w, !.CONSECUTIVE_MOVES = m] :
     sd \in BOOLEAN, mc \in BOOLEAN, w \in 1..MaxWindow, m \in 1..MaxWindow}

\* The same candles with other oscillator values.
OtherIndicators(trade_data) ==
  [i \in 1..Len(trade_data) |->
     IF trade_data[i].K > 90
     THEN [trade_data[i] EXCEPT !.K = 60, !.D = 50, !.R = -90, !.R1 = -90]
     ELSE [trade_data[i] EXCEPT !.K = 95, !.D = 93, !.R = -10, !.R1 = -2]]

DetectRecord(trade_data, c, trade_type, flag) ==
  [fn |-> "detect_big_move", trade_data |-> trade_data,
   SD |-> c.SD, MC |-> c.MC, AVG_WINDOW_CANDLES |-> c.AVG_WINDOW_CANDLES,
   CONSECUTIVE_MOVES |-> c.CONSECUTIVE_MOVES, trade_type |-> trade_type,
   flag |-> flag,
   value |-> detect_big_move(trade_data, trade_data[1].open, c, trade_type, flag),
   other_value |-> detect_big_move(OtherIndicators(trade_data), trade_data[1].open,
                                   c, trade_type, flag)]

\* detect_big_move without a 'Big Move' value in the signal row.
CallDetectBigMove ==
  /\ pc = "helpers"
  /\ \E trade_data \in DetectSeries, c \in DetectConfigs, trade_type \in {"Call", "Put"} :
       call' = DetectRecord(trade_data, c, trade_type, [kind |-> "none"])
  /\ Returned

OverrideFlags == BigMoveFlags \ {[kind |-> "none"]}

\* detect_big_move with a 'Big Move' value in the signal row.
CallDetectOverride ==
  /\ pc = "helpers"
  /\ \E trade_data \in [1..1 -> DetectCandles] \cup [1..MaxWindow -> DetectCandles],
        c \in {d \in DetectConfigs : d.CONSECUTIVE_MOVES = 1},
        trade_type \in {"Call", "Put"}, flag \in OverrideFlags :
       call' = DetectRecord(trade_data, c, trade_type, flag)
  /\ Returned

\* Oscillator readings on and next to the thresholds of the two detectors.
DetectorK == {20, 40, 50, 70}

DetectorD == {45, 60}

DetectorWr9 == {-90, -80, -79, -50, -49}

DetectorWr28 == {-90, -80, -50, -40}

DetectorCandles ==
  {Candle(k, d, wr9, wr28) : k \in DetectorK, d \in DetectorD,
                             wr9 \in DetectorWr9, wr28 \in DetectorWr28}

\* detect_yellow_flag_conditions on a pair of candle dictionaries, with the
\* system enabled.
CallDetectYellowFlag ==
  /\ pc = "helpers"
  /\ \E current_candle \in DetectorCandles, prev_candle \in DetectorCandles :
       call' = [fn |-> "detect_yellow_flag_conditions",
                current_candle |-> current_candle, prev_candle |-> prev_candle,
                value |-> detect_yellow_flag_conditions(current_candle, prev_candle, CfgFull)]
  /\ Returned

\* Entry-bar readings on both sides of the default and of the configured
\* DYNAMIC_SL thresholds, missing ("nan") and without a column.
RiskK == {50, 65, 75, 82, 90, NaN, Absent}

RiskWr9 == {-70, -55, -40, -25, -10, NaN, Absent}

RiskConfigs == {CfgFull, CfgCustomThresholds}

\* The two classifications execute_advanced_hybrid_premium_trade makes of
\* the entry bar: the DYNAMIC_SL tier behind initial_sl_pct and
\* entry_risk_level.
CallEntryRisk ==
  /\ pc = "helpers"
  /\ \E k \in RiskK, wr9 \in RiskWr9, c \in RiskConfigs :
       LET entry_candle == [K |-> k, R |-> wr9]
       IN call' = [fn |-> "assess_entry_risk_level",
                   entry_candle |-> entry_candle,
                   DYNAMIC_SL |-> c.DYNAMIC_SL,
                   sl_tier |-> dynamic_sl_tier(entry_candle, c),
                   value |-> assess_entry_risk_level(entry_candle)]
  /\ Returned

NextHelpers ==
  \/ CallTimeAdjustment \/ CallPremiumTier \/ CallDetectBigMove \/ CallDetectOverride
  \/ CallDetectYellowFlag \/ CallEntryRisk

SpecHelpers == InitHelpers /\ [][NextHelpers]_vars

\* ------------------------------------------------------------------------
\* execute_index_trades_complex (and tools/trade_executor.execute_trades,
\* which is the same code): the slabbed-ATR index path
\* ------------------------------------------------------------------------
MaxIndexBars == 4

FIXED_STOP_LOSS_PERCENT == 80

STALL_BAR_COUNT == 20

BreakevenAtrMultiplier == 25

SLAB_THRESHOLDS == <<15, 30, 45, 70>>

SLAB_MULTIPLIERS == <<30, 25, 20, 35>>

\* Rows of the index prices_df: open, high, low, close, ATR_5 (NaN while
\* the ATR has no history).
IndexRows ==
  { [open |-> 250000, high |-> 251000, low |-> 249000, close |-> 250000, ATR_5 |-> 2000],
    [open |-> 250000, high |-> 260000, low |-> 250000, close |-> 258000, ATR_5 |-> 2000],
    [open |-> 240000, high |-> 240000, low |-> 229000, close |-> 230000, ATR_5 |-> 2000],
    [open |-> 250000, high |-> 251000, low |-> 249000, close |-> 250000, ATR_5 |-> NaN] }

IndexRuns == {659, 897}

IndexSeries == UNION {[1..n -> IndexRows] : n \in 1..MaxIndexBars}

atr_multiplier(highest_high_since_entry, entry_price) ==
  LET gain == (highest_high_since_entry - entry_price) * 100
  IN IF gain >= SLAB_THRESHOLDS[4] * entry_price THEN SLAB_MULTIPLIERS[4]
     ELSE IF gain >= SLAB_THRESHOLDS[3] * entry_price THEN SLAB_MULTIPLIERS[3]
     ELSE IF gain >= SLAB_THRESHOLDS[2] * entry_price THEN SLAB_MULTIPLIERS[2]
     ELSE SLAB_MULTIPLIERS[1]

IndexEntry(entry_price) ==
  [current_stop_loss |-> (entry_price * (1000 - FIXED_STOP_LOSS_PERCENT)) \div 1000,
   highest_high_since_entry |-> entry_price,
   bar_of_highest_high |-> 0,
   is_breakeven_achieved |-> FALSE,
   exit_reason |-> "In Progress",
   exit_price |-> 0,
   exit_time |-> NoValue]

\* One pass of the loop over trade_data: current_bar is row i (counted from
\* 0 at the entry bar) and stands at minute t.
SlabBar(st, current_bar, i, t, entry_price, entry_atr) ==
  IF current_bar.low <= st.current_stop_loss
  THEN [st EXCEPT !.exit_price = st.current_stop_loss,
                  !.exit_time = t,
                  !.exit_reason = IF st.is_breakeven_achieved
                                  THEN "Trailing SL" ELSE "Initial SL"]
  ELSE
    LET reached == /\ ~st.is_breakeven_achieved
                   /\ current_bar.high >= entry_price + (BreakevenAtrMultiplier * entry_atr) \div 10
        s1 == IF reached
              THEN [st EXCEPT !.is_breakeven_achieved = TRUE, !.current_stop_loss = entry_price]
              ELSE st
        s2 == IF current_bar.high > s1.highest_high_since_entry
              THEN [s1 EXCEPT !.highest_high_since_entry = current_bar.high,
                              !.bar_of_highest_high = i]
              ELSE s1
        trailing_stop_target ==
          s2.highest_high_since_entry
            - (atr_multiplier(s2.highest_high_since_entry, entry_price) * current_bar.ATR_5) \div 10
        s3 == IF s2.is_breakeven_achieved /\ current_bar.ATR_5 # NaN
              THEN [s2 EXCEPT !.current_stop_loss =
                                 IF trailing_stop_target > s2.current_stop_loss
                                 THEN trailing_stop_target ELSE s2.current_stop_loss]
              ELSE s2
    IN IF i - s3.bar_of_highest_high > STALL_BAR_COUNT
       THEN [s3 EXCEPT !.exit_price = current_bar.close, !.exit_time = t,
                       !.exit_reason = "Stall Exit"]
       ELSE s3

RECURSIVE SlabLoop(_, _, _, _)
SlabLoop(st, trade_data, i, entry_time) ==
  IF st.exit_reason # "In Progress" THEN st
  ELSE IF i >= Len(trade_data)
  THEN [st EXCEPT !.exit_price = trade_data[Len(trade_data)].close,
                  !.exit_time = entry_time + Len(trade_data) - 1,
                  !.exit_reason = "End of Data"]
  ELSE SlabLoop(SlabBar(st, trade_data[i + 1], i, entry_time + i,
                        trade_data[1].open, trade_data[1].ATR_5),
                trade_data, i + 1, entry_time)

IndexTradeRecord(entry_time, trade_data) ==
  LET entry_price == trade_data[1].open
      st == SlabLoop(IndexEntry(entry_price), trade_data, 1, entry_time)
  IN [EntryTime |-> entry_time, EntryPrice |-> entry_price,
      ExitTime |-> st.exit_time, ExitPrice |-> st.exit_price,
      PL |-> st.exit_price - entry_price, ExitReason |-> st.exit_reason]

InitIndex ==
  /\ cfg = CfgFull
  /\ dayStart \in IndexRuns
  /\ prices_df \in IndexSeries
  /\ nbars = Len(prices_df)
  /\ pc = "signals"
  /\ sigTime = dayStart - 1
  /\ current_trade_exit_time = NoValue
  /\ trade_results = <<>>
  /\ idx = 0
  /\ bar = NoBar
  /\ pos = NoPos
  /\ result = NoResult
  /\ call = NoCall
  /\ columns = "all"

\* The rows of valid_signals come in the order of their timestamps.
IndexSignalTimes == {t \in dayStart..(dayStart + nbars) : t > sigTime}

IndexLooked(t) ==
  /\ sigTime' = t
  /\ UNCHANGED <<cfg, columns, prices_df, dayStart, nbars, pc, current_trade_exit_time,
                 idx, bar, pos, result, call>>

IndexSkipLate ==
  /\ pc = "signals"
  /\ \E t \in IndexSignalTimes :
       /\ t > LAST_ENTRY_TIME
       /\ IndexLooked(t)
  /\ UNCHANGED trade_results

IndexSkipNoEntryBar ==
  /\ pc = "signals"
  /\ \E t \in IndexSignalTimes :
       /\ t <= LAST_ENTRY_TIME
       /\ t + 1 - dayStart \notin 1..nbars
       /\ IndexLooked(t)
  /\ UNCHANGED trade_results

IndexSkipNoAtr ==
  /\ pc = "signals"
  /\ \E t \in IndexSignalTimes :
       /\ t <= LAST_ENTRY_TIME
       /\ t + 1 - dayStart \in 1..nbars
       /\ prices_df[t + 1 - dayStart].ATR_5 = NaN
       /\ IndexLooked(t)
  /\ UNCHANGED trade_results

IndexTrade ==
  /\ pc = "signals"
  /\ \E t \in IndexSignalTimes :
       /\ t <= LAST_ENTRY_TIME
       /\ t + 1 - dayStart \in 1..nbars
       /\ prices_df[t + 1 - dayStart].ATR_5 # NaN
       /\ trade_results' =
            Append(trade_results,
                   IndexTradeRecord(t + 1, SubSeq(prices_df, t + 1 - dayStart, nbars)))
       /\ IndexLooked(t)

IndexReturn ==
  /\ pc = "signals"
  /\ pc' = "returned"
  /\ UNCHANGED <<cfg, columns, prices_df, dayStart, nbars, sigTime, current_trade_exit_time,
                 trade_results, idx, bar, pos, result, call>>

NextIndex ==
  IndexSkipLate \/ IndexSkipNoEntryBar \/ IndexSkipNoAtr \/ IndexTrade \/ IndexReturn

SpecIndex == InitIndex /\ [][NextIndex]_vars

\* ------------------------------------------------------------------------
\* Properties
\* ------------------------------------------------------------------------
TerminalReasons ==
  {"Enhanced Technical Exit", "Fixed TP (Average Signal)",
   "Williams Exit (Average Signal)", "Enhanced EMA Exit (BigMove)", "Quick TP",
   "Trailing SL", "SL Hit", "End of Data"}

\* C1: on every bar processed after the entry bar, whichever branch handles
\* it, currentStopLoss and highestHigh after the bar are at least what they
\* were before it; hence every trade record has finalSL >= initialSL.
C1_Ratchet ==
  /\ [][pc = "bars" => /\ pos'.current_sl >= pos.current_sl
                       /\ pos'.highest_high >= pos.highest_high]_vars
  /\ [](pc = "done" => result.FinalSL >= result.InitialSL)

\* A trade whose stop was raised above the initial stop, on a later bar whose
\* own high is below the highest high.
C1_Witness ==
  /\ pc = "done"
  /\ pos.candle_count >= 2
  /\ pos.current_sl > pos.initial_sl
  /\ bar.high < pos.highest_high

C3_TerminatesWithOneRecord ==
  /\ [][LET returns == \/ pc = "trade" /\ pc' # "trade"
                       \/ pc = "signals" /\ idx' # idx /\ pc' = "signals"
        IN IF returns
           THEN /\ Len(trade_results') = Len(trade_results) + 1
                /\ SubSeq(trade_results', 1, Len(trade_results)) = trade_results
                /\ LET r == trade_results'[Len(trade_results')]
                   IN /\ r.ExitReason \in TerminalReasons
                      /\ r.ExitTime # NoValue
                      /\ r.ExitPrice # NoValue
                      /\ r.EntryTime = dayStart + (IF pc = "trade" THEN idx' - pos'.candle_count ELSE idx')
           ELSE trade_results' = trade_results]_vars
  /\ (pc = "trade" ~> pc = "signals")

\* A simulation that ran over several bars to the end of the data and left
\* its record.
C3_Witness ==
  /\ pc = "signals"
  /\ Len(trade_results) >= 1
  /\ pos.candle_count >= 2
  /\ trade_results[Len(trade_results)].ExitReason = "End of Data"

\* The reasons of the rules that are tested before the universal stop check.
EarlierRuleReasons ==
  {"Enhanced Technical Exit", "Fixed TP (Average Signal)",
   "Williams Exit (Average Signal)", "Enhanced EMA Exit (BigMove)", "Quick TP"}

\* C4: on the bar where a technical-exit condition first fires, the position
\* is closed by it (at that bar's close, reason 'Enhanced Technical Exit') if
\* and only if close-based profit < -2.0%, or (profit < 1.0% and not BigMove),
\* or (HIGH_RISK and profit < 0); otherwise the signal does not close it.
C4_TechnicalExitGating ==
  [][(pc = "bars" /\ ~pos.technical_exit_available /\ pos'.technical_exit_available)
     => LET profit == ProfitPct(bar'.close, pos.entry_price)
            gate == \/ profit < -20
                    \/ profit < 10 /\ ~pos.is_big_move
                    \/ pos.entry_risk_level = "HIGH_RISK" /\ profit < 0
            closed == /\ pos'.exit_reason = "Enhanced Technical Exit"
                      /\ pos'.exit_price = bar'.close
                      /\ pos'.exit_time = bar'.datetime
        IN /\ gate <=> closed
           /\ ~gate => pos'.exit_reason # "Enhanced Technical Exit"]_vars

\* A HIGH_RISK BigMove closed by the technical exit while losing less than 2%.
C4_Witness ==
  /\ pc = "done"
  /\ pos.exit_reason = "Enhanced Technical Exit"
  /\ pos.is_big_move
  /\ pos.entry_risk_level = "HIGH_RISK"
  /\ ProfitPct(bar.close, pos.entry_price) >= -20
  /\ ProfitPct(bar.close, pos.entry_price) < 0

\* C5: when a technical-exit condition fires on a BigMove whose close-based
\* profit is not negative, the technical exit does not close the position,
\* whatever the entry risk level; the stop is at most tightened.
C5_BigMovePreserved ==
  [][(/\ pc = "bars" /\ pos.is_big_move
      /\ ~pos.technical_exit_available /\ pos'.technical_exit_available
      /\ (bar'.close - pos.entry_price) * 100 >= 0)
     => /\ pos'.exit_reason # "Enhanced Technical Exit"
        /\ pos'.current_sl >= pos.current_sl]_vars

\* A HIGH_RISK BigMove with a profit below 1% on the first bar after entry,
\* the technical signal fired on that bar, and the trade was not closed by it.
C5_Witness ==
  /\ pos.exit_reason \notin {"None", "Enhanced Technical Exit"}
  /\ pos.is_big_move
  /\ pos.entry_risk_level = "HIGH_RISK"
  /\ pos.candle_count = 1
  /\ pos.technical_exit_available
  /\ bar.close >= pos.entry_price
  /\ (bar.close - pos.entry_price) * 100 < pos.entry_price

\* C6 as stated: for an average signal, if a bar after entry has
\* high >= entry + FIXED_TP_POINTS and no stop-loss breach occurred on an
\* earlier bar, the record is a Fixed TP at entry + FIXED_TP_POINTS.
C6_Original ==
  (/\ pc = "done"
   /\ pos.is_average_signal
   /\ pos.candle_count >= 1
   /\ bar.high >= pos.entry_price + FIXED_TP_POINTS)
  => /\ result.ExitReason = "Fixed TP (Average Signal)"
     /\ result.ExitPrice = pos.entry_price + FIXED_TP_POINTS

\* C6: for an average signal, if the trade is still open when a bar with
\* high >= entry + FIXED_TP_POINTS arrives and the technical exit does not
\* close the trade on that bar, the record is a Fixed TP at
\* entry + FIXED_TP_POINTS on that bar.
C6_FixedTP ==
  [][(/\ pc = "bars" /\ pos.is_average_signal
      /\ bar'.high >= pos.entry_price + FIXED_TP_POINTS
      /\ pos'.exit_reason # "Enhanced Technical Exit")
     => /\ pc' = "done"
        /\ result'.ExitReason = "Fixed TP (Average Signal)"
        /\ result'.ExitPrice = pos.entry_price + FIXED_TP_POINTS
        /\ result'.ExitTime = bar'.datetime]_vars

\* An average signal that took the fixed profit on a bar whose high went
\* beyond the target, after an earlier bar.
C6_Witness ==
  /\ pc = "done"
  /\ pos.is_average_signal
  /\ pos.candle_count >= 2
  /\ bar.high > pos.entry_price + FIXED_TP_POINTS
  /\ result.ExitReason = "Fixed TP (Average Signal)"

\* C7: on a bar on which no earlier rule has exited, if the low is at or below
\* the stop as updated on that bar, the trade exits on that bar at the stop,
\* with 'Trailing SL' if trailing was active and 'SL Hit' otherwise; so every
\* record with one of these reasons has exitPrice = finalSL.
C7_UniversalStop ==
  /\ [][(/\ pc = "bars"
         /\ pos'.exit_reason \notin EarlierRuleReasons
         /\ bar'.low <= pos'.current_sl)
        => /\ pos'.exit_reason = (IF pos'.trail_active THEN "Trailing SL" ELSE "SL Hit")
           /\ pos'.exit_price = pos'.current_sl
           /\ pos'.exit_time = bar'.datetime]_vars
  /\ [](pc = "done" /\ result.ExitReason \in {"SL Hit", "Trailing SL"}
          => result.ExitPrice = result.FinalSL)

\* A trailing stop above the initial stop, hit by a bar that went below it.
C7_Witness ==
  /\ pc = "done"
  /\ result.ExitReason = "Trailing SL"
  /\ pos.current_sl > pos.initial_sl
  /\ bar.low < pos.current_sl
  /\ result.ExitPrice = pos.current_sl

\* C8: a simulation in which no rule exits (also when the entry bar is the
\* last bar) ends with 'End of Data' at the last bar's close and timestamp.
C8_EndOfData ==
  pc = "done"
  => \/ pos.exit_reason \in TerminalReasons \ {"End of Data"}
     \/ /\ idx = nbars
        /\ result.ExitReason = "End of Data"
        /\ result.ExitPrice = bar.close
        /\ result.ExitTime = dayStart + nbars
        /\ bar.datetime = dayStart + nbars

\* A trade that ran over bars after the entry bar to the end of the data,
\* the last bar closing away from its open.
C8_Witness ==
  /\ pc = "done"
  /\ pos.candle_count >= 1
  /\ result.ExitReason = "End of Data"
  /\ bar.close # bar.open

\* C9: for a BigMove with trailing active, the ATR multiplier used on a bar is
\* that of the stage of the same bar's highest-high profit: Stage1 below 25%,
\* Stage2 from 25% and below 50%, Stage3 otherwise (times the time factor
\* 1.0 or 0.8).
C9_StageOfSameBar ==
  [][(/\ pc = "bars" /\ pos.is_big_move /\ pos'.trail_active
      /\ pos'.exit_reason # "Enhanced Technical Exit")
     => LET gain == (pos'.highest_high - pos.entry_price) * 100
            stage_mult == IF gain < 25 * pos.entry_price THEN 30
                          ELSE IF gain < 50 * pos.entry_price THEN 40
                          ELSE 60
        IN pos'.atr_multiplier \in {stage_mult * 10, stage_mult * 8}]_vars

\* The first bar after entry takes the highest high to exactly 25%: the
\* multiplier of that bar is Stage2's 4.0.
C9_Witness ==
  /\ pos.exit_reason # "None"
  /\ pos.is_big_move
  /\ pos.trail_active
  /\ pos.candle_count = 1
  /\ bar.high = pos.highest_high
  /\ (pos.highest_high - pos.entry_price) * 100 = 25 * pos.entry_price
  /\ pos.atr_multiplier = 400

\* C10: with enhanced SL management enabled and no time-of-day adjustment, the
\* SL percent is 3.5 when the entry bar has K > 85 and %R > -20, else 5.0 when
\* K > 70 and %R > -50, else 7.0; initialSL = entry * (1 - slPercent/100); so
\* entry 100, K 90, %R -10 gives 96.50.
C10_RiskAndInitialSL ==
  (pos.exit_reason # "None" /\ pos.candle_count = 0 /\ cfg.ENH)
  => LET k == pos.prev_k
         r == pos.prev_wr9
         base == IF k > 85 /\ r > -20 THEN 35
                 ELSE IF k > 70 /\ r > -50 THEN 50
                 ELSE 70
         hour == pos.entry_time \div 60
         minute == pos.entry_time % 60
         adjusted == cfg.TBS /\ (hour = 9 \/ (hour = 10 /\ minute <= 15) \/ hour = 15)
     IN /\ ~adjusted => pos.initial_sl_pct = base
        /\ pos.initial_sl * 1000 = pos.entry_price * (1000 - pos.initial_sl_pct)
        /\ (~adjusted /\ pos.entry_price = 10000 /\ k = 90 /\ r = -10)
             => pos.initial_sl = 9650

\* Scenario A: entry 100.00 at 11:00 with K = 90 and %R = -10.
C10_Witness ==
  /\ pos.exit_reason # "None"
  /\ pos.candle_count = 0
  /\ cfg.ENH
  /\ pos.entry_time = 660
  /\ pos.entry_price = 10000
  /\ pos.prev_k = 90
  /\ pos.prev_wr9 = -10
  /\ pos.initial_sl = 9650

\* C11 as stated: in the opening window the value is the base percent minus
\* the reduction, never below 2.0, and never looser (larger) than the base; in
\* the closing window it is the base plus the increase, never above 10.0, and
\* never tighter (smaller) than the base; at any other time, or with
\* TIME_BASED_SL disabled, it is the base percent.
C11_Original ==
  call.fn = "apply_time_based_sl_adjustment"
  => LET hour == call.entry_time \div 60
         minute == call.entry_time % 60
         opening == hour = 9 \/ (hour = 10 /\ minute <= 15)
         closing == hour = 15
     IN /\ (call.enabled /\ opening)
             => /\ call.value = Max(call.sl_percent - call.OPENING_HOUR_REDUCTION, 20)
                /\ call.value >= 20
                /\ call.value <= call.sl_percent
        /\ (call.enabled /\ closing)
             => /\ call.value = Min(call.sl_percent + call.CLOSING_HOUR_INCREASE, 100)
                /\ call.value <= 100
                /\ call.value >= call.sl_percent
        /\ (~call.enabled \/ (~opening /\ ~closing))
             => call.value = call.sl_percent

\* C11: as above, except that the opening adjustment is not looser than the
\* base only when the base is at least 2.0 and the reduction is not negative,
\* and the closing adjustment is not tighter than the base only when the base
\* is at most 10.0 and the increase is not negative.
C11_TimeAdjustment ==
  call.fn = "apply_time_based_sl_adjustment"
  => LET hour == call.entry_time \div 60
         minute == call.entry_time % 60
         opening == hour = 9 \/ (hour = 10 /\ minute <= 15)
         closing == hour = 15
     IN /\ (call.enabled /\ opening)
             => /\ call.value = Max(call.sl_percent - call.OPENING_HOUR_REDUCTION, 20)
                /\ call.value >= 20
                /\ (call.sl_percent >= 20 /\ call.OPENING_HOUR_REDUCTION >= 0)
                     => call.value <= call.sl_percent
        /\ (call.enabled /\ closing)
             => /\ call.value = Min(call.sl_percent + call.CLOSING_HOUR_INCREASE, 100)
                /\ call.value <= 100
                /\ (call.sl_percent <= 100 /\ call.CLOSING_HOUR_INCREASE >= 0)
                     => call.value >= call.sl_percent
        /\ (~call.enabled \/ (~opening /\ ~closing))
             => call.value = call.sl_percent

\* An opening-window entry at 10:15 whose reduced percent would fall below the
\* floor: base 2.5, reduction 1.0, value 2.0.
C11_Witness ==
  /\ call.fn = "apply_time_based_sl_adjustment"
  /\ call.enabled
  /\ call.entry_time = 615
  /\ call.sl_percent = 25
  /\ call.OPENING_HOUR_REDUCTION = 10
  /\ call.value = 20

\* C12: get_premium_tier returns the tier with the smallest threshold that is
\* strictly greater than the entry price (a price equal to a threshold falls
\* into the next tier), and the unbounded tier when no threshold exceeds the
\* price, for every entry price and every configured tier set.
C12_SmallestThresholdAbove ==
  call.fn = "get_premium_tier"
  => LET tiers == call.tiers
         above == {i \in 1..Len(tiers) : tiers[i].threshold > call.entry_price}
     IN IF above = {}
        THEN call.value.threshold = Inf
        ELSE /\ call.value.threshold > call.entry_price
             /\ \A i \in above : call.value.threshold <= tiers[i].threshold

\* C13: when the signal row carries a 'Big Move' value, detect_big_move returns
\* that value (True for True, False for False; a string is True exactly when
\* it spells TRUE), whatever the bars, the indicator values, the trade
\* direction and the configuration; the run with other indicator values gives
\* the same output.
C13_OverridePassThrough ==
  (call.fn = "detect_big_move" /\ call.flag.kind \in {"bool", "str"})
  => LET supplied == IF call.flag.kind = "bool" THEN call.flag.val
                     ELSE call.flag.upper = "TRUE"
     IN /\ call.value = supplied
        /\ call.other_value = supplied

\* An override of True on weak oscillators with differentiation disabled: the
\* detector answers True, and so does the run with strong oscillators.
C13_Witness ==
  /\ call.fn = "detect_big_move"
  /\ call.flag = [kind |-> "bool", val |-> TRUE]
  /\ ~call.SD
  /\ \A i \in 1..Len(call.trade_data) : call.trade_data[i].K = 60
  /\ call.value
  /\ call.other_value

\* C14: without an override and with differentiation enabled, detect_big_move
\* is True exactly when the window averages of K and %R.1 pass the thresholds
\* of the direction and, under momentum confirmation, the first bar's range is
\* at least MIN_CANDLE_RANGE_PCT of the entry price and at least
\* CONSECUTIVE_MOVES bars of the window moved in the profitable direction, for
\* every AVG_WINDOW_CANDLES and CONSECUTIVE_MOVES; it is False with fewer bars
\* than the window or with differentiation disabled.
C14_DetectionWithoutOverride ==
  (call.fn = "detect_big_move" /\ call.flag.kind = "none")
  => LET w == call.AVG_WINDOW_CANDLES
         td == call.trade_data
         th == IF call.trade_type = "Call" THEN [k |-> 72, r1 |-> -5]
               ELSE [k |-> 75, r1 |-> -50]
         averages == /\ SumOf(SubSeq(td, 1, w), "K") > w * th.k
                     /\ SumOf(SubSeq(td, 1, w), "R1") > w * th.r1
         range_ok == (td[1].high - td[1].low) * 1000 >= 12 * td[1].open
         moved == {i \in 2..w : IF call.trade_type = "Call"
                                THEN td[i].close > td[i - 1].close
                                ELSE td[i].close < td[i - 1].close}
         expected == /\ averages
                     /\ call.MC => (range_ok /\ Cardinality(moved) >= call.CONSECUTIVE_MOVES)
     IN IF ~call.SD \/ Len(td) < w THEN call.value = FALSE
        ELSE call.value = expected

\* C15: on a series whose oscillators are all absent or all NaN, the entry
\* classifies as the risk level of the neutral values (K = D = 50,
\* Williams = -50), and neither a Yellow Flag nor a Technical Exit fires on any
\* bar.
C15_MissingIndicatorsNeutral ==
  (columns \in {"none", "nan"} /\ pos.exit_reason # "None")
  => /\ pos.entry_risk_level = "LOW_RISK"
     /\ ~pos.yellow_flag_triggered
     /\ ~pos.technical_exit_available
     /\ pos.exit_reason # "Enhanced Technical Exit"

\* C16: under a configuration in which an optional block is absent, disabled
\* or malformed (the fallback configuration of load_trade_config included), the
\* simulation of any trade is never left by an error, and when it is over it
\* has a trade record with a terminal reason.
C16_ConfigFaultsNotFatal ==
  /\ pc # "raised"
  /\ pos.exit_reason # "Raised"
  /\ pc = "done" => result.ExitReason \in TerminalReasons

\* C17: when the simulation of an admitted signal fails, the signal loop goes
\* on with the next signal and keeps the trade records collected so far; the
\* failure never ends the stream.
C17_FailureIsolation ==
  [][(pc \in {"signals", "trade"} /\ pos'.exit_reason = "Raised" /\ pos' # pos)
     => /\ pc' = "signals"
        /\ trade_results' = trade_results]_vars

\* C18: a signal whose timestamp has no matching bar, or whose matching bar
\* is the last bar, adds no trade record and leaves the tracked exit time (and
\* everything but the loop position) unchanged, and the loop stays ready for
\* the next signal.
C18_MissingDataSkipped ==
  [][(/\ pc = "signals" /\ pc' # "returned"
      /\ \/ sigTime' \notin (dayStart + 1)..(dayStart + nbars)
         \/ sigTime' = dayStart + nbars)
     => /\ pc' = "signals"
        /\ UNCHANGED <<trade_results, current_trade_exit_time, pos, idx, bar, result>>]_vars

\* After a trade that exited before the last bar, the signal on the last bar
\* was looked at and skipped: one record, exit time as the trade left it.
C18_Witness ==
  /\ pc = "signals"
  /\ sigTime = dayStart + nbars
  /\ sigTime <= LAST_ENTRY_TIME
  /\ Len(trade_results) = 1
  /\ trade_results[1].ExitTime < sigTime
  /\ current_trade_exit_time = trade_results[1].ExitTime

\* C19: on the bar where a yellow flag first fires the stop is at least
\* max(stop before, entry * (1 - (initialSLpct - TIGHTEN_SL_PCT)/100)), and is
\* exactly that when no later rule of the bar moved it (the bar closed on a
\* technical exit, or an average-signal bar without break-even or stall); the
\* flag is marked triggered and tightened; an exit on that bar carries the
\* reason of another rule; once triggered the marks stay for the trade.
C19_YellowFlag ==
  /\ [][(pc = "bars" /\ ~pos.yellow_flag_triggered /\ pos'.yellow_flag_triggered)
        => LET tightened_sl == PriceBelow(pos.entry_price, pos.initial_sl_pct - TIGHTEN_SL_PCT)
               level == IF pos.current_sl >= tightened_sl THEN pos.current_sl ELSE tightened_sl
               untouched ==
                 \/ pos'.exit_reason = "Enhanced Technical Exit"
                 \/ /\ pos'.is_average_signal
                    /\ ProfitPct(bar'.close, pos.entry_price) < BREAKEVEN_AFTER_PCT
                    /\ pos'.stall_count < AVG_STALL_CANDLES
           IN /\ pos'.current_sl >= level
              /\ untouched => pos'.current_sl = level
              /\ pos'.sl_tightened_by_yellow_flag
              /\ pos'.exit_reason \in {"In Progress"} \cup TerminalReasons]_vars
  /\ [][(pc = "bars" /\ pos.yellow_flag_triggered)
        => /\ pos'.yellow_flag_triggered
           /\ pos'.sl_tightened_by_yellow_flag]_vars

\* A yellow flag has fired, the stop stands at the tightened level above the
\* initial stop, and the position is still open.
C19_Witness ==
  /\ pc = "bars"
  /\ pos.yellow_flag_triggered
  /\ pos.exit_reason = "In Progress"
  /\ pos.current_sl > pos.initial_sl
  /\ pos.current_sl = PriceBelow(pos.entry_price, pos.initial_sl_pct - TIGHTEN_SL_PCT)

\* C20: with ENHANCED_SL_MANAGEMENT off (whatever its sub-switches say), for
\* all indicator inputs detect_yellow_flag_conditions returns no flag and
\* check_technical_exit_conditions no signal, the initial stop percent is the
\* premium tier's sl_percent, and a trade never carries a yellow-flag or
\* technical mark nor the reason 'Enhanced Technical Exit'.
C20_DisabledNoOp ==
  (~cfg.ENH /\ pc \in {"bars", "done"})
  => /\ \A i \in Indicators \cup {<<90, 85, -10, -30>>}, j \in Indicators \cup {<<85, 80, -20, -40>>} :
          /\ detect_yellow_flag_conditions(Candle(i[1], i[2], i[3], i[4]),
                                           Candle(j[1], j[2], j[3], j[4]), cfg) = {}
          /\ check_technical_exit_conditions(Candle(i[1], i[2], i[3], i[4]),
                                             Candle(j[1], j[2], j[3], j[4]), cfg) = NULL
     /\ pos.initial_sl_pct = pos.tier.sl_percent
     /\ pos.initial_sl = PriceBelow(pos.entry_price, pos.tier.sl_percent)
     /\ ~pos.yellow_flag_triggered
     /\ ~pos.technical_exit_available
     /\ ~pos.sl_tightened_by_yellow_flag
     /\ pos.exit_reason # "Enhanced Technical Exit"

\* The master switch is off with both sub-switches on, and the last bar
\* processed carried readings that fire both detectors when enabled; the
\* position is open and unmarked.
C20_Witness ==
  /\ ~cfg.ENH /\ cfg.YF /\ cfg.TE
  /\ pc = "bars"
  /\ idx >= 2
  /\ pos.prev_wr9 > WILLIAMS_R_REVERSAL
  /\ pos.prev_wr28 > YF_DOUBLE_REVERSAL
  /\ pos.exit_reason = "In Progress"
  /\ ~pos.yellow_flag_triggered

\* C21: with enhanced SL management on, for the initial SL percent of every
\* trade (risk classifier, then time-of-day adjustment) and both tightening
\* deltas (the configured TIGHTEN_SL_PCT and the technical nudge of 1.0), the
\* tightened percent is > 0 and < 10 and its stop price is > 0 and < entry
\* price; and on the bar where a stop still at its initial level is tightened
\* and no other rule moves it, the stop in force after the bar is > 0 and
\* < entry price.
C21_TightenedLevelsValid ==
  /\ []((cfg.ENH /\ pc \in {"bars", "done"})
        => \A delta \in {cfg.TIGHTEN_SL_PCT, TechNudgePct} :
             LET tightened_sl_pct == pos.initial_sl_pct - delta
                 tightened_sl == (pos.entry_price * (1000 - tightened_sl_pct)) \div 1000
             IN /\ tightened_sl_pct > 0
                /\ tightened_sl_pct < 100
                /\ tightened_sl > 0
                /\ tightened_sl < pos.entry_price)
  /\ [][(/\ pc = "bars"
         /\ pos.current_sl = pos.initial_sl
         /\ \/ ~pos.yellow_flag_triggered /\ pos'.yellow_flag_triggered
            \/ ~pos.technical_exit_available /\ pos'.technical_exit_available
         /\ \/ pos'.exit_reason = "Enhanced Technical Exit"
            \/ /\ pos'.is_average_signal
               /\ ProfitPct(bar'.close, pos.entry_price) < BREAKEVEN_AFTER_PCT
               /\ pos'.stall_count < AVG_STALL_CANDLES)
        => /\ pos'.current_sl > 0
           /\ pos'.current_sl < pos.entry_price]_vars

\* C22: with the system enabled, detect_yellow_flag_conditions returns a
\* non-empty list exactly when a Williams %R line crosses from <= -80 to above
\* it, or previous K - current K >= 20, or previous K >= previous D and
\* current K < current D, or both Williams lines are above -50; and a K drop
\* of at least 20 always yields the 'momentum drop' flag.
C22_YellowFlagConditions ==
  call.fn = "detect_yellow_flag_conditions"
  => LET cur == call.current_candle
         prev == call.prev_candle
         k_drop == prev.K - cur.K
         fires == \/ prev.williams_9 <= -80 /\ cur.williams_9 > -80
                  \/ prev.williams_28 <= -80 /\ cur.williams_28 > -80
                  \/ k_drop >= 20
                  \/ prev.K >= prev.D /\ cur.K < cur.D
                  \/ cur.williams_9 > -50 /\ cur.williams_28 > -50
     IN /\ (call.value # {}) <=> fires
        /\ k_drop >= 20 => "Stoch K momentum drop" \in call.value

\* K fell by exactly 20 points with no other condition met, and the only
\* flag is the momentum drop.
C22_Witness ==
  /\ call.fn = "detect_yellow_flag_conditions"
  /\ call.prev_candle.K - call.current_candle.K = 20
  /\ call.value = {"Stoch K momentum drop"}

C24_TechnicalNudge ==
  [][(/\ pc = "bars"
      /\ ~pos.technical_exit_available /\ pos'.technical_exit_available
      /\ pos'.exit_reason # "Enhanced Technical Exit")
     => LET profit == ProfitPct(bar'.close, pos.entry_price)
            emergency_sl == (pos.entry_price * (1000 - (pos.initial_sl_pct - 10))) \div 1000
            quiet == \/ /\ pos'.is_average_signal
                        /\ profit < BREAKEVEN_AFTER_PCT
                        /\ pos'.stall_count < AVG_STALL_CANDLES
                     \/ pos'.is_big_move /\ ~pos'.trail_active
        IN /\ profit < 0 => pos'.current_sl >= emergency_sl
           /\ (profit >= 0 /\ pos.yellow_flag_triggered /\ quiet)
                => pos'.current_sl = pos.current_sl]_vars

\* C25: a bar closes a trade with 'Williams Exit (Average Signal)' only if a
\* Williams %R line crosses on it from above -80 to at or below -80 and the
\* close-based profit is above 3%; so no Williams exit is at a loss.
C25_WilliamsExitProfitGated ==
  [][(pc = "bars" /\ pos'.exit_reason = "Williams Exit (Average Signal)")
     => /\ \A b \in Bars :
             (/\ Columns(At(b, dayStart + idx + 1)) = bar'
              /\ BarIteration(pos, At(b, dayStart + idx + 1), cfg) = pos')
             => \/ pos.prev_wr28 > -80 /\ b.R1 <= -80
                \/ pos.prev_wr9 > -80 /\ b.R <= -80
        /\ ProfitPct(bar'.close, pos.entry_price) > 30
        /\ pos'.exit_price >= pos.entry_price]_vars

\* C26: at most one open position on the slabbed-ATR index path: a signal
\* that arrives while the trade of an earlier signal has not yet exited
\* is skipped, so every returned trade is entered after the exit of the
\* trade returned before it.
C26_IndexNoOverlap ==
  \A i \in 1..Len(trade_results), j \in 1..Len(trade_results) :
     i < j => trade_results[j].EntryTime > trade_results[i].ExitTime

\* C27: the technical exit is latched: once a technical-exit condition has
\* fired on a bar of the trade, no later bar of the trade exits with
\* 'Enhanced Technical Exit' and the latch stays set, whatever the loss.
C27_TechnicalExitLatched ==
  [][(pc = "bars" /\ pos.technical_exit_available)
     => /\ pos'.technical_exit_available
        /\ pos'.exit_reason # "Enhanced Technical Exit"]_vars

\* The latch was set on an earlier bar; the bar processed last carries a
\* technical-exit condition and closes beyond the loss threshold, and the
\* trade is still open.
C27_Witness ==
  /\ pc = "bars"
  /\ pos.technical_exit_available
  /\ pos.exit_reason = "In Progress"
  /\ pos.prev_wr9 > WILLIAMS_R_REVERSAL
  /\ pos.prev_wr9 <= 0
  /\ ProfitPct(bar.close, pos.entry_price) < TechLossPct

\* C28: the realized loss is bounded by the stop: in every trade record the
\* exit price is at least the stop-loss in force on the exit bar (the
\* record's final SL), and so at least the initial stop-loss.
C28_LossBoundedByStop ==
  (pc = "done" /\ result.ExitReason \in TerminalReasons)
    => /\ result.ExitPrice >= result.FinalSL
       /\ result.ExitPrice >= result.InitialSL

\* C29: for every entry bar and every configured DYNAMIC_SL threshold set,
\* the risk level that gates the technical exits is the DYNAMIC_SL tier the
\* base stop-loss percent was taken from.
C29_RiskLevelConsistent ==
  call.fn = "assess_entry_risk_level" => call.value = call.sl_tier

\* C30: on a bar without a technical exit, an average-signal trade whose
\* bar reaches entry + FIXED_TP_POINTS exits with 'Fixed TP (Average
\* Signal)' at that level, and a regular trade whose bar reaches entry +
\* QUICK_TP_POINTS with the Quick TP allowed exits with 'Quick TP' at that
\* level, also when the bar's low is at or below the stop-loss: the
\* take-profit is evaluated before the stop.
C30_TakeProfitBeforeStop ==
  [][(pc = "bars" /\ pos'.exit_reason # "Enhanced Technical Exit")
     => /\ (pos.is_average_signal /\ bar'.high >= pos.entry_price + FIXED_TP_POINTS)
             => /\ pos'.exit_reason = "Fixed TP (Average Signal)"
                /\ pos'.exit_price = pos.entry_price + FIXED_TP_POINTS
        /\ \A b \in Bars :
             (/\ ~pos.is_average_signal /\ ~pos.is_big_move
              /\ Columns(At(b, dayStart + idx + 1)) = bar'
              /\ BarIteration(pos, At(b, dayStart + idx + 1), cfg) = pos'
              /\ b.high >= pos.entry_price + cfg.QUICK_TP_POINTS
              /\ (~cfg.USE_STOCH_FADE_FOR_TP \/ (Gt(pos.prev_k, pos.prev_d) /\ Le(b.K, b.D))))
             => /\ pos'.exit_reason = "Quick TP"
                /\ pos'.exit_price = pos.entry_price + cfg.QUICK_TP_POINTS]_vars

\* An average-signal trade closed by the fixed take-profit on a bar whose
\* low is at or below the stop-loss in force.
C30_Witness ==
  /\ pc = "done"
  /\ result.ExitReason = "Fixed TP (Average Signal)"
  /\ bar.low <= result.FinalSL
  /\ bar.high >= result.EntryPrice + FIXED_TP_POINTS

====
